---- MODULE Spec2Model ----
(***************************************************************************)
(* Telemetry relay of the posture backend (src/backend/server.js):         *)
(* POST /imu and /imu2 normalise a raw JSON body, update latestN and       *)
(* historyN, append one NDJSON line to the source's log with               *)
(* fs.appendFile and broadcast the record to the WebSocket clients.        *)
(*                                                                         *)
(* JavaScript values are records [t, n, s]: t is the kind of value, n the  *)
(* number in tenths (125 is 12.5) and s the string as a sequence of        *)
(* characters.  An object is a function from its own keys to values.       *)
(***************************************************************************)
EXTENDS Integers, Sequences, FiniteSets, TLC

(* ---------------------------- bounds ----------------------------------- *)
MaxReq == 3          \* POST requests handled in one behaviour
MaxClock == 1        \* values of Date.now() after start-up
MaxLines == 2        \* serial lines read by the bridge in one behaviour
MaxClients == 2
MaxSockets == 3      \* sockets the viewer client creates in one behaviour
MaxTimers == 2       \* reconnect timers the viewer client creates in one behaviour
MaxRelayOps == 3     \* inputs and demo ticks the legacy relay takes in one behaviour
MaxDemoTimers == 2   \* demo timers the legacy relay creates in one behaviour
MaxLoops == 7        \* calls of the firmware's loop() in one behaviour
MaxQueued == 1       \* messages waiting on the viewer's main queue      \* WebSocket connections ever opened

Sources == {1, 2}
Clients == 1..MaxClients

(* ---------------------------- JS values -------------------------------- *)
Undef == [t |-> "undefined", n |-> 0, s |-> <<>>]
Null == [t |-> "null", n |-> 0, s |-> <<>>]
Num(n) == [t |-> "number", n |-> n, s |-> <<>>]
Whole(i) == Num(10 * i)
NonFinite == [t |-> "nonfinite", n |-> 0, s |-> <<>>]
Str(s) == [t |-> "string", n |-> 0, s |-> s]
Bool(b) == [t |-> "boolean", n |-> IF b THEN 1 ELSE 0, s |-> <<>>]

\* typeof v
TypeOf(v) == IF v.t = "nonfinite" THEN "number" ELSE v.t

\* obj?.k : the value of key k, undefined when the object has no such key
Get(obj, k) == IF k \in DOMAIN obj THEN obj[k] ELSE Undef

\* { ...obj, k: v }
Spread(obj, k, v) == [x \in DOMAIN obj \cup {k} |-> IF x = k THEN v ELSE obj[x]]

(* ---------------------------- Number(string) --------------------------- *)
Digits == <<"0", "1", "2", "3", "4", "5", "6", "7", "8", "9">>
IsDigit(c) == \E i \in 1..10 : Digits[i] = c
DigitVal(c) == (CHOOSE i \in 1..10 : Digits[i] = c) - 1
IsSpace(c) == c \in {" ", "\t", "\n", "\r"}

RECURSIVE TrimLeft(_)
TrimLeft(s) == IF s # <<>> /\ IsSpace(Head(s)) THEN TrimLeft(Tail(s)) ELSE s

RECURSIVE TrimRight(_)
TrimRight(s) ==
  IF s # <<>> /\ IsSpace(s[Len(s)]) THEN TrimRight(SubSeq(s, 1, Len(s) - 1)) ELSE s

\* String.prototype.trim
Trim(s) == TrimRight(TrimLeft(s))

AllDigits(s) == \A i \in 1..Len(s) : IsDigit(s[i])

RECURSIVE DigitsVal(_)
DigitsVal(s) ==
  IF s = <<>> THEN 0 ELSE 10 * DigitsVal(SubSeq(s, 1, Len(s) - 1)) + DigitVal(s[Len(s)])

DotAt(s) == IF \E i \in 1..Len(s) : s[i] = "." THEN CHOOSE i \in 1..Len(s) : s[i] = "." ELSE 0

\* an unsigned decimal literal: digits, optionally a point and digits; the
\* value is in tenths, so the model keeps the first fractional digit and
\* takes only literals whose further fractional digits are zero
UnsignedLit(s) ==
  LET d == DotAt(s)
      ip == IF d = 0 THEN s ELSE SubSeq(s, 1, d - 1)
      fp == IF d = 0 THEN <<>> ELSE SubSeq(s, d + 1, Len(s))
  IN  IF s = <<>> \/ ~AllDigits(ip) \/ ~AllDigits(fp) \/ (ip = <<>> /\ fp = <<>>)
        THEN [ok |-> FALSE, n |-> 0]
      ELSE IF \E i \in 2..Len(fp) : fp[i] # "0"
        THEN [ok |-> FALSE, n |-> 0]
      ELSE [ok |-> TRUE,
            n |-> 10 * DigitsVal(ip) + (IF fp = <<>> THEN 0 ELSE DigitVal(fp[1]))]

\* Number(v) for a string v: [ok |-> the result is finite, n |-> the result]
ToNumber(s) ==
  LET t == Trim(s) IN
  IF t = <<>> THEN [ok |-> TRUE, n |-> 0]
  ELSE IF Head(t) = "-"
    THEN LET u == UnsignedLit(Tail(t)) IN [ok |-> u.ok, n |-> 0 - u.n]
  ELSE IF Head(t) = "+" THEN UnsignedLit(Tail(t))
  ELSE UnsignedLit(t)

(* ---------------------------- server.js helpers ------------------------ *)
toNum_keepString(v) ==
  IF v.t = "number" THEN v
  ELSE IF v.t = "string" /\ Trim(v.s) # <<>> /\ ToNumber(v.s).ok THEN v
  ELSE Undef

toNum_zero(v) ==
  IF v.t = "number" THEN v
  ELSE IF v.t = "string" /\ Trim(v.s) # <<>> /\ ToNumber(v.s).ok THEN Num(ToNumber(v.s).n)
  ELSE Num(0)

toNum(v) ==
  IF v.t = "number" THEN v
  ELSE IF v.t = "string" /\ Trim(v.s) # <<>> /\ ToNumber(v.s).ok THEN Num(ToNumber(v.s).n)
  ELSE Undef

\* a ?? b
Coalesce(a, b) == IF a.t \in {"undefined", "null"} THEN b ELSE a

\* JSON.stringify followed by the reader's JSON.parse: keys whose value is
\* undefined are dropped and a non-finite number is written as null
Stringify(obj) ==
  [k \in {x \in DOMAIN obj : obj[x].t # "undefined"} |->
     IF obj[k].t = "nonfinite" THEN Null ELSE obj[k]]

KIND_SAMPLE == Str(<<"s", "a", "m", "p", "l", "e">>)
KIND_EVENT == Str(<<"e", "v", "e", "n", "t">>)

ERR_PITCH == "pitch must be a number"
ERR_EVENT == "event must be a string"

SampleFields ==
  {"kind", "ax", "ay", "az", "pitch", "pitch_smooth", "roll", "a_mag", "dpitch",
   "baseline_pitch", "button", "button_click", "ts"}

normalizeSample_defaultZero(body, t) ==
  LET pitch == Coalesce(toNum(Get(body, "pitch")), Whole(0))
      ts == Coalesce(toNum(Get(body, "ts")), Whole(t))
      sample == [k \in SampleFields |->
                   IF k = "kind" THEN KIND_SAMPLE
                   ELSE IF k = "pitch" THEN pitch
                   ELSE IF k = "ts" THEN ts
                   ELSE toNum(Get(body, k))]
  IN [ok |-> TRUE, error |-> "", msg |-> sample]

\* normalizeSample(body), with Date.now() = t
normalizeSample(body, t) ==
  LET pitch == toNum(Get(body, "pitch")) IN
  IF pitch = Undef THEN [ok |-> FALSE, error |-> ERR_PITCH, msg |-> <<>>]
  ELSE LET ts == Coalesce(toNum(Get(body, "ts")), Whole(t))
           sample == [k \in SampleFields |->
                        IF k = "kind" THEN KIND_SAMPLE
                        ELSE IF k = "pitch" THEN pitch
                        ELSE IF k = "ts" THEN ts
                        ELSE toNum(Get(body, k))]
       IN [ok |-> TRUE, error |-> "", msg |-> sample]

normalizeEvent_dropsExtras(body, t) ==
  LET event == IF TypeOf(Get(body, "event")) = "string" THEN Get(body, "event") ELSE Undef IN
  IF event = Undef \/ event.s = <<>> THEN [ok |-> FALSE, error |-> ERR_EVENT, msg |-> <<>>]
  ELSE LET ts == Coalesce(toNum(Get(body, "ts")), Whole(t))
       IN [ok |-> TRUE, error |-> "",
           msg |-> [kind |-> KIND_EVENT, event |-> event, ts |-> ts]]

normalizeEvent_rawTs(body, t) ==
  LET event == IF TypeOf(Get(body, "event")) = "string" THEN Get(body, "event") ELSE Undef IN
  IF event = Undef \/ event.s = <<>> THEN [ok |-> FALSE, error |-> ERR_EVENT, msg |-> <<>>]
  ELSE LET ts == Coalesce(Get(body, "ts"), Whole(t))
       IN [ok |-> TRUE, error |-> "",
           msg |-> Spread(Spread(body, "kind", KIND_EVENT), "ts", ts)]

normalizeEvent_bodyKindWins(body, t) ==
  LET event == IF TypeOf(Get(body, "event")) = "string" THEN Get(body, "event") ELSE Undef IN
  IF event = Undef \/ event.s = <<>> THEN [ok |-> FALSE, error |-> ERR_EVENT, msg |-> <<>>]
  ELSE LET ts == Coalesce(toNum(Get(body, "ts")), Whole(t))
       IN [ok |-> TRUE, error |-> "",
           msg |-> Spread(Spread(body, "kind", Coalesce(Get(body, "kind"), KIND_EVENT)), "ts", ts)]

\* normalizeEvent(body), with Date.now() = t
normalizeEvent(body, t) ==
  LET event == IF TypeOf(Get(body, "event")) = "string" THEN Get(body, "event") ELSE Undef IN
  IF event = Undef \/ event.s = <<>> THEN [ok |-> FALSE, error |-> ERR_EVENT, msg |-> <<>>]
  ELSE LET ts == Coalesce(toNum(Get(body, "ts")), Whole(t))
       IN [ok |-> TRUE, error |-> "",
           msg |-> Spread(Spread(body, "kind", KIND_EVENT), "ts", ts)]

(* ---------------------------- inputs ----------------------------------- *)
\* raw request bodies (req.body after express.json) that are accepted
SampleBodies ==
  { [pitch |-> Whole(10)],
    [pitch |-> Str(<<"1", "2", ".", "5">>), ts |-> Whole(7), ax |-> Str(<<"x">>)] }

EventBodies ==
  { [event |-> Str(<<"b">>), ts |-> Str(<<"3">>)],
    [event |-> Str(<<"b">>), pitch |-> Whole(10), kind |-> KIND_SAMPLE] }

\* raw request bodies that are rejected
RejectBodies ==
  { [ax |-> Whole(1)],
    [pitch |-> Str(<<"a">>)],
    [pitch |-> Str(<<" ">>), ts |-> Whole(7)],
    [event |-> Str(<<>>), pitch |-> Whole(10)],
    [event |-> Whole(5), pitch |-> NonFinite] }

Bodies == SampleBodies \cup EventBodies \cup RejectBodies

\* the bodies posted while subscribers and log writes are followed
HubBodies ==
  { [pitch |-> Whole(10)], [event |-> Str(<<"b">>), ts |-> Str(<<"3">>)] } \cup RejectBodies

\* the optional numeric fields of a sample, and all its numeric fields
OptionalFields ==
  {"ax", "ay", "az", "pitch_smooth", "roll", "a_mag", "dpitch", "baseline_pitch", "button",
   "button_click"}

NumericFields == OptionalFields \cup {"pitch", "ts"}

\* the decimal text of a natural number and of a number in tenths
RECURSIVE NatStr(_)
NatStr(i) == IF i < 10 THEN <<Digits[i + 1]>> ELSE NatStr(i \div 10) \o <<Digits[(i % 10) + 1]>>

NumStr(n) ==
  LET a == IF n < 0 THEN 0 - n ELSE n IN
  (IF n < 0 THEN <<"-">> ELSE <<>>) \o NatStr(a \div 10)
     \o (IF a % 10 = 0 THEN <<>> ELSE <<".", Digits[(a % 10) + 1]>>)

\* an object with the keys of f whose value is given
Compact(f) == [k \in {x \in DOMAIN f : f[x] # Undef} |-> f[k]]

\* the numbers, in tenths, posted both as numbers and as their decimal text
CoerceVals == {0 - 5, 0, 125}

BUTTON_CLICK == Str(<<"b", "u", "t", "t", "o", "n", "_", "c", "l", "i", "c", "k">>)

\* raw bodies of every shape, each posted as the first request of a server
NormBodies ==
  {Compact([event |-> e, pitch |-> p, ts |-> t]) :
     e \in {Undef, Str(<<>>), Str(<<"b">>), Whole(5)},
     p \in {Undef, Num(125), Str(<<"1", "2", ".", "5">>), Str(<<"a">>), NonFinite, Null},
     t \in {Undef, Whole(7), Str(<<" ", "7", " ">>), Str(<<"x">>)}}
  \cup {Spread([pitch |-> Whole(10)], f, v) :
          f \in OptionalFields,
          v \in {Whole(0), Str(<<"2", ".", "5">>), Str(<<"x">>), Str(<<>>), Bool(TRUE)}}
  \cup {Spread([pitch |-> Whole(10)], f, v) :
          f \in NumericFields, v \in {Num(n) : n \in CoerceVals}}
  \cup {Spread([pitch |-> Whole(10)], f, v) :
          f \in NumericFields, v \in {Str(NumStr(n)) : n \in CoerceVals}}
  \cup { [pitch |-> Whole(10)],
         [event |-> BUTTON_CLICK, ts |-> Whole(123456)],
         [event |-> Str(<<"b">>), kind |-> KIND_SAMPLE, source |-> Whole(9),
          note |-> Str(<<"a">>), flag |-> Bool(TRUE), x |-> NonFinite],
         [pitch |-> Whole(10), kind |-> KIND_EVENT, source |-> Whole(9),
          note |-> Str(<<"a">>)] }

(* ---------------------------- state ------------------------------------ *)
VARIABLES
  latest,        \* latest1, latest2
  history,       \* history1, history2
  now,           \* Date.now()
  wssClients,    \* wss.clients, in insertion order
  readyState,    \* readyState of each connection: NONE before it exists
  sent,          \* the messages passed to ws.send, per connection
  appendCalls,   \* the lines passed to fs.appendFile, per log, in call order
  pending,       \* the fs.appendFile calls still in flight, per log
  file,          \* the lines of each log file
  nReq,          \* POST requests handled so far
  res,           \* the last response: status and payload {ok, error}
  env,           \* what the server read from process.env when it started
  analysis,      \* the last POST /gemini/analyze: status, window, combinedSamples
  handler,       \* the request handler that is running: its position and its record
  console,       \* the lines written to the server's console
  bridge,        \* serial-bridge.js: lines read, sent counter, requests posted, errors
  viewer,        \* TelemetryWebSocket: its fields, its sockets, timers and callbacks
  posture,       \* PostureViewModel: its published values and the main queue
  relay,         \* the legacy relay src/server.js
  firmware       \* the sensor node's firmware

vars == <<latest, history, now, wssClients, readyState, sent, appendCalls, pending, file,
          nReq, res, env, analysis,
          handler, console, bridge, viewer, posture, relay, firmware>>

\* MAX_BUFFER of the servers whose requests are followed one by one
SmallBuffer == 2

\* Number(process.env.MAX_BUFFER || 2000)
MAX_BUFFER == env.MAX_BUFFER

\* Number(process.env.ANALYSIS_WINDOW || 300)
ANALYSIS_DEFAULT_WINDOW == env.ANALYSIS_DEFAULT_WINDOW

\* Number(process.env.ANALYSIS_MAX_WINDOW || 1000)
ANALYSIS_MAX_WINDOW == env.ANALYSIS_MAX_WINDOW

NoAnalysis == [status |-> 0, window |-> Undef, source |-> Undef, samples |-> <<>>]

StartTime == 0

\* no request handler is running
Idle == [pc |-> "idle", source |-> 0, msg |-> <<>>]

\* console.warn when GEMINI_API_KEY is missing; the lines of server.listen
KEY_WARNING == "[WARN] GEMINI_API_KEY is not set."

StartUpLines ==
  <<"Backend listening on", "WebSocket on", "Logging #1 to", "Logging #2 to", "Gemini model:">>

\* console.error in the catch of POST /gemini/analyze
ANALYZE_ERROR == "[/gemini/analyze] Error:"

\* serial-bridge.js before any serial line: the banner is on its console
BridgeStart ==
  [lines |-> 0, sent |-> 0, posted |-> <<>>, inflight |-> 0, console |-> <<"[Bridge] Serial=">>]

\* no receive callback is running on the session's delegate queue
NoCallback == [pc |-> "idle", of |-> 0, oldSocket |-> 0]

\* TelemetryWebSocket as constructed: no socket (0 is nil), no timer; no
\* socket and no timer was created yet, PostureViewModel called nothing
ViewerStart ==
  [socket |-> 0, isConnected |-> FALSE, reconnectTimer |-> 0,
   sockets |-> 0, timers |-> 0, receiving |-> {}, cancelled |-> {}, scheduled |-> {},
   callback |-> NoCallback, called |-> "nothing"]

\* PostureViewModel as constructed (an optional is a sequence of length 0 or 1)
PostureStart ==
  [upperPitch |-> 0, upperRoll |-> 0, lowerPitch |-> 0, lastEvent |-> <<>>, mainQueue |-> <<>>]

\* src/server.js after start-up: latest = { pitch: 0, ts: Date.now() }, no
\* demo timer, no connection; no request was answered yet
RelayStart ==
  [latest |-> [pitch |-> Whole(0), ts |-> Whole(StartTime)],
   demoTimer |-> 0, intervals |-> {}, t |-> 0, created |-> 0,
   readyState |-> [c \in Clients |-> "NONE"], sent |-> [c \in Clients |-> <<>>],
   res |-> [status |-> 0, ok |-> FALSE, error |-> "", alreadyRunning |-> FALSE],
   ops |-> 0]

\* the firmware's globals and statics before the first loop(); serial holds
\* what the last loop() printed, clicked its local of that name
FirmwareStart ==
  [nowMs |-> 0, debouncedPressed |-> FALSE, lastDebouncedPressed |-> FALSE,
   lastRawPressed |-> FALSE, lastRawChangeMs |-> 0, clicked |-> FALSE,
   calibrating |-> FALSE, calibCount |-> 0, calibSum |-> 0,
   baselinePitch |-> 0, baselineValid |-> FALSE, lastCalibSampleMs |-> 0,
   lastStreamMs |-> 0, serial |-> <<>>, loops |-> 0]

Init ==
  /\ latest = [s \in Sources |->
                 [pitch |-> Whole(0), ts |-> Whole(StartTime), source |-> Whole(s)]]
  /\ history = [s \in Sources |-> <<>>]
  /\ now = StartTime
  /\ wssClients = <<>>
  /\ readyState = [c \in Clients |-> "NONE"]
  /\ sent = [c \in Clients |-> <<>>]
  /\ appendCalls = [s \in Sources |-> <<>>]
  /\ pending = [s \in Sources |-> {}]
  /\ file = [s \in Sources |-> <<>>]
  /\ nReq = 0
  /\ res = [status |-> 0, ok |-> FALSE, error |-> ""]
  /\ env = [MAX_BUFFER |-> SmallBuffer, ANALYSIS_DEFAULT_WINDOW |-> Whole(300),
            ANALYSIS_MAX_WINDOW |-> Whole(1000), GEMINI_API_KEY |-> TRUE]
  /\ analysis = NoAnalysis
  /\ handler = Idle
  /\ console = StartUpLines
  /\ bridge = BridgeStart
  /\ viewer = ViewerStart
  /\ posture = PostureStart
  /\ relay = RelayStart
  /\ firmware = FirmwareStart

(* ---------------------------- operations ------------------------------- *)
appendNdjson_sameFile(source, obj) ==
  /\ appendCalls' = [appendCalls EXCEPT ![1] = Append(@, Stringify(obj))]
  /\ pending' = [pending EXCEPT ![1] = @ \cup {Len(appendCalls[1]) + 1}]

appendNdjson_beforeSource(source, obj) ==
  /\ appendCalls' = [appendCalls EXCEPT
                       ![source] = Append(@, Stringify([k \in DOMAIN obj \ {"source"} |-> obj[k]]))]
  /\ pending' = [pending EXCEPT ![source] = @ \cup {Len(appendCalls[source]) + 1}]

\* appendNdjson(filePath, obj): one fs.appendFile call is started
appendNdjson(source, obj) ==
  /\ appendCalls' = [appendCalls EXCEPT ![source] = Append(@, Stringify(obj))]
  /\ pending' = [pending EXCEPT ![source] = @ \cup {Len(appendCalls[source]) + 1}]

RECURSIVE SendLoop_firstOnly(_, _, _)
SendLoop_firstOnly(cs, msg, acc) ==
  IF cs = <<>> THEN acc
  ELSE LET c == Head(cs) IN
       IF readyState[c] = "OPEN" THEN [acc EXCEPT ![c] = Append(@, msg)]
       ELSE SendLoop_firstOnly(Tail(cs), msg, acc)

RECURSIVE SendLoop_noStateCheck(_, _, _)
SendLoop_noStateCheck(cs, msg, acc) ==
  IF cs = <<>> THEN acc
  ELSE SendLoop_noStateCheck(Tail(cs), msg, [acc EXCEPT ![Head(cs)] = Append(@, msg)])

\* the loop of broadcast over wss.clients: cs is the part of wss.clients
\* still to visit, acc the messages sent so far
RECURSIVE SendLoop(_, _, _)
SendLoop(cs, msg, acc) ==
  IF cs = <<>> THEN acc
  ELSE LET c == Head(cs) IN
       SendLoop(Tail(cs), msg,
                IF readyState[c] = "OPEN" THEN [acc EXCEPT ![c] = Append(@, msg)] ELSE acc)

\* the part of wss.clients up to and including its first member in fail
RECURSIVE UpToFirst(_, _)
UpToFirst(cs, fail) ==
  IF cs = <<>> THEN <<>>
  ELSE IF Head(cs) \in fail THEN <<Head(cs)>>
  ELSE <<Head(cs)>> \o UpToFirst(Tail(cs), fail)

broadcast_abort(obj, fail) ==
  /\ sent' = SendLoop(UpToFirst(wssClients, fail), Stringify(obj), sent)
  /\ readyState' = [c \in Clients |-> IF c \in fail THEN "CLOSING" ELSE readyState[c]]

\* broadcast(obj); fail is the set of open connections whose transport
\* breaks on this send: ws.send does not throw, the connection starts closing
broadcast(obj, fail) ==
  /\ sent' = SendLoop(wssClients, Stringify(obj), sent)
  /\ readyState' = [c \in Clients |-> IF c \in fail THEN "CLOSING" ELSE readyState[c]]

PushBounded_pop(historyArr, msg) ==
  LET h == Append(historyArr, msg) IN
  IF Len(h) > MAX_BUFFER THEN SubSeq(h, 1, Len(h) - 1) ELSE h

\* historyArr.push(msg); if (historyArr.length > MAX_BUFFER) historyArr.shift()
PushBounded(historyArr, msg) ==
  LET h == Append(historyArr, msg) IN IF Len(h) > MAX_BUFFER THEN Tail(h) ELSE h

SetLatest_swapped(source, m) == [latest EXCEPT ![3 - source] = m]

\* (m) => (latest1 = m) and (m) => (latest2 = m)
SetLatest(source, m) == [latest EXCEPT ![source] = m]

\* res.status(out.status).json(out.payload)
Reply(status, ok, error) ==
  /\ nReq' = nReq + 1
  /\ res' = [status |-> status, ok |-> ok, error |-> error]

\* return { ok: false, status: 400, payload: norm }
Reject(norm, fail) ==
  /\ fail = {}
  /\ Reply(400, FALSE, norm.error)
  /\ UNCHANGED <<latest, history, now, wssClients, readyState, sent, appendCalls, pending,
                 file, env, analysis, handler, console,
                 bridge,
                 viewer, posture, relay, firmware>>

IngestEvent_setsLatest(reqBody, source, fail) ==
  LET norm == normalizeEvent(reqBody, now) IN
  IF ~norm.ok THEN Reject(norm, fail)
  ELSE LET msg == Spread(norm.msg, "source", Whole(source)) IN
       /\ latest' = SetLatest(source, msg)
       /\ appendNdjson(source, msg)
       /\ broadcast(msg, fail)
       /\ history' = [history EXCEPT ![source] = PushBounded(@, msg)]
       /\ Reply(200, TRUE, "")
       /\ UNCHANGED <<now, wssClients, file, env, analysis, handler, console,
                 bridge,
                 viewer, posture, relay, firmware>>

\* handleIncoming, the branch typeof reqBody?.event === "string"
IngestEvent(reqBody, source, fail) ==
  LET norm == normalizeEvent(reqBody, now) IN
  IF ~norm.ok THEN Reject(norm, fail)
  ELSE LET msg == Spread(norm.msg, "source", Whole(source)) IN
       /\ appendNdjson(source, msg)
       /\ broadcast(msg, fail)
       /\ history' = [history EXCEPT ![source] = PushBounded(@, msg)]
       /\ Reply(200, TRUE, "")
       /\ UNCHANGED <<latest, now, wssClients, file, env, analysis, handler, console,
                 bridge,
                 viewer, posture, relay, firmware>>

\* handleIncoming, the sample branch
IngestSample(reqBody, source, fail) ==
  LET norm == normalizeSample(reqBody, now) IN
  IF ~norm.ok THEN Reject(norm, fail)
  ELSE LET msg == Spread(norm.msg, "source", Whole(source)) IN
       /\ latest' = SetLatest(source, msg)
       /\ appendNdjson(source, msg)
       /\ broadcast(msg, fail)
       /\ history' = [history EXCEPT ![source] = PushBounded(@, msg)]
       /\ Reply(200, TRUE, "")
       /\ UNCHANGED <<now, wssClients, file, env, analysis, handler, console,
                 bridge,
                 viewer, posture, relay, firmware>>

handleIncoming(reqBody, source, fail) ==
  IF TypeOf(Get(reqBody, "event")) = "string"
  THEN IngestEvent(reqBody, source, fail)
  ELSE IngestSample(reqBody, source, fail)

\* POST /imu (source 1) and POST /imu2 (source 2)
Post(source, reqBody, fail) ==
  /\ nReq < MaxReq
  /\ fail \subseteq {c \in Clients : readyState[c] = "OPEN"}
  /\ handleIncoming(reqBody, source, fail)

Connect_swapped(c) ==
  /\ readyState[c] = "NONE"
  /\ \A d \in Clients : d < c => readyState[d] # "NONE"
  /\ wssClients' = Append(wssClients, c)
  /\ readyState' = [readyState EXCEPT ![c] = "OPEN"]
  /\ sent' = [sent EXCEPT ![c] = <<Stringify(latest[2]), Stringify(latest[1])>>]
  /\ UNCHANGED <<latest, history, now, appendCalls, pending, file, nReq, res, env, analysis, handler, console,
                 bridge,
                 viewer, posture, relay, firmware>>

\* wss.on("connection"): the new connection is in wss.clients and open;
\* connections are numbered in the order in which they are made
Connect(c) ==
  /\ readyState[c] = "NONE"
  /\ \A d \in Clients : d < c => readyState[d] # "NONE"
  /\ wssClients' = Append(wssClients, c)
  /\ readyState' = [readyState EXCEPT ![c] = "OPEN"]
  /\ sent' = [sent EXCEPT ![c] = <<Stringify(latest[1]), Stringify(latest[2])>>]
  /\ UNCHANGED <<latest, history, now, appendCalls, pending, file, nReq, res, env, analysis, handler, console,
                 bridge,
                 viewer, posture, relay, firmware>>

\* the peer or the transport starts closing an open connection
ClientClosing(c) ==
  /\ readyState[c] = "OPEN"
  /\ readyState' = [readyState EXCEPT ![c] = "CLOSING"]
  /\ UNCHANGED <<latest, history, now, wssClients, sent, appendCalls, pending, file, nReq,
                 res, env, analysis, handler, console,
                 bridge,
                 viewer, posture, relay, firmware>>

\* the connection is closed: ws removes it from wss.clients
ClientClosed(c) ==
  /\ readyState[c] = "CLOSING"
  /\ readyState' = [readyState EXCEPT ![c] = "CLOSED"]
  /\ wssClients' = SelectSeq(wssClients, LAMBDA d : d # c)
  /\ UNCHANGED <<latest, history, now, sent, appendCalls, pending, file, nReq, res, env, analysis, handler, console,
                 bridge,
                 viewer, posture, relay, firmware>>

\* one fs.appendFile call completes: its line is at the end of the file
AppendDone(source, i) ==
  /\ i \in pending[source]
  /\ pending' = [pending EXCEPT ![source] = @ \ {i}]
  /\ file' = [file EXCEPT ![source] = Append(@, appendCalls[source][i])]
  /\ UNCHANGED <<latest, history, now, wssClients, readyState, sent, appendCalls, nReq, res,
                 env, analysis, handler, console,
                 bridge,
                 viewer, posture, relay, firmware>>

AppendFail_raised(source, i) ==
  /\ i \in pending[source]
  /\ pending' = [pending EXCEPT ![source] = @ \ {i}]
  /\ res' = [status |-> 500, ok |-> FALSE, error |-> "append failed"]
  /\ UNCHANGED <<latest, history, now, wssClients, readyState, sent, appendCalls, file, nReq,
                 env, analysis, handler, console,
                 bridge,
                 viewer, posture, relay, firmware>>

\* one fs.appendFile call fails: the callback () => {} drops the error
AppendFail(source, i) ==
  /\ i \in pending[source]
  /\ pending' = [pending EXCEPT ![source] = @ \ {i}]
  /\ UNCHANGED <<latest, history, now, wssClients, readyState, sent, appendCalls, file, nReq,
                 res, env, analysis, handler, console,
                 bridge,
                 viewer, posture, relay, firmware>>

(* ---------------------------- handleIncoming, statement by statement -- *)
After_storeFirst(pc) ==
  CASE pc = "setLatest" -> "push"
    [] pc = "push" -> "append"
    [] pc = "append" -> "broadcast"
    [] pc = "broadcast" -> "reply"
    [] pc = "reply" -> "idle"

\* the statement that follows each statement of handleIncoming
After(pc) ==
  CASE pc = "setLatest" -> "append"
    [] pc = "append" -> "broadcast"
    [] pc = "broadcast" -> "push"
    [] pc = "push" -> "reply"
    [] pc = "reply" -> "idle"

Receive_preempts(source, reqBody) ==
  /\ nReq < MaxReq
  /\ LET isEvent == TypeOf(Get(reqBody, "event")) = "string"
         norm == IF isEvent THEN normalizeEvent(reqBody, now) ELSE normalizeSample(reqBody, now)
     IN /\ norm.ok
        /\ handler' = [pc |-> IF isEvent THEN "append" ELSE "setLatest",
                       source |-> source,
                       msg |-> Spread(norm.msg, "source", Whole(source))]
        /\ UNCHANGED <<latest, history, now, wssClients, readyState, sent, appendCalls,
                       pending, file, nReq, res, env, analysis, console, bridge,
                 viewer, posture, relay, firmware>>

\* a request reaches its route while no other handler runs: it is normalised,
\* and rejected at once or taken on with msg = { ...norm.msg, source }
Receive(source, reqBody) ==
  /\ handler.pc = "idle"
  /\ nReq < MaxReq
  /\ LET isEvent == TypeOf(Get(reqBody, "event")) = "string"
         norm == IF isEvent THEN normalizeEvent(reqBody, now) ELSE normalizeSample(reqBody, now)
     IN IF ~norm.ok THEN Reject(norm, {})
        ELSE /\ handler' = [pc |-> IF isEvent THEN After("setLatest") ELSE "setLatest",
                            source |-> source,
                            msg |-> Spread(norm.msg, "source", Whole(source))]
             /\ UNCHANGED <<latest, history, now, wssClients, readyState, sent, appendCalls,
                            pending, file, nReq, res, env, analysis, console, bridge,
                 viewer, posture, relay, firmware>>

\* setLatest(msg)
DoSetLatest ==
  /\ handler.pc = "setLatest"
  /\ latest' = SetLatest(handler.source, handler.msg)
  /\ handler' = [handler EXCEPT !.pc = After(@)]
  /\ UNCHANGED <<history, now, wssClients, readyState, sent, appendCalls, pending, file, nReq,
                 res, env, analysis, console, bridge,
                 viewer, posture, relay, firmware>>

\* appendNdjson(telemetryPath, msg)
DoAppend ==
  /\ handler.pc = "append"
  /\ appendNdjson(handler.source, handler.msg)
  /\ handler' = [handler EXCEPT !.pc = After(@)]
  /\ UNCHANGED <<latest, history, now, wssClients, readyState, sent, file, nReq, res, env,
                 analysis, console, bridge,
                 viewer, posture, relay, firmware>>

\* broadcast(msg)
DoBroadcast ==
  /\ handler.pc = "broadcast"
  /\ broadcast(handler.msg, {})
  /\ handler' = [handler EXCEPT !.pc = After(@)]
  /\ UNCHANGED <<latest, history, now, wssClients, appendCalls, pending, file, nReq, res, env,
                 analysis, console, bridge,
                 viewer, posture, relay, firmware>>

\* historyArr.push(msg); if (historyArr.length > MAX_BUFFER) historyArr.shift()
DoPush ==
  /\ handler.pc = "push"
  /\ history' = [history EXCEPT ![handler.source] = PushBounded(@, handler.msg)]
  /\ handler' = [handler EXCEPT !.pc = After(@)]
  /\ UNCHANGED <<latest, now, wssClients, readyState, sent, appendCalls, pending, file, nReq,
                 res, env, analysis, console, bridge,
                 viewer, posture, relay, firmware>>

DoReply_afterWrite ==
  /\ handler.pc = "reply"
  /\ pending[handler.source] = {}
  /\ Reply(200, TRUE, "")
  /\ handler' = Idle
  /\ UNCHANGED <<latest, history, now, wssClients, readyState, sent, appendCalls, pending,
                 file, env, analysis, console, bridge,
                 viewer, posture, relay, firmware>>

\* return { ok: true, status: 200, ... }; res.status(out.status).json(out.payload)
DoReply ==
  /\ handler.pc = "reply"
  /\ Reply(200, TRUE, "")
  /\ handler' = Idle
  /\ UNCHANGED <<latest, history, now, wssClients, readyState, sent, appendCalls, pending,
                 file, env, analysis, console, bridge,
                 viewer, posture, relay, firmware>>

\* the statements of a running handler
HandlerStep == DoSetLatest \/ DoAppend \/ DoBroadcast \/ DoPush \/ DoReply

\* a connection is made between two handlers, never inside one
ConnectWhenIdle(c) == handler.pc = "idle" /\ Connect(c)

(* ---------------------------- serial-bridge.js ------------------------- *)
\* the object keys that occur on the serial line, as the names used here;
\* any other key is "_"
KeyName(k) ==
  CASE k = <<"p", "i", "t", "c", "h">> -> "pitch"
    [] k = <<"e", "v", "e", "n", "t">> -> "event"
    [] k = <<"t", "s">> -> "ts"
    [] k = <<"a", "x">> -> "ax"
    [] OTHER -> "_"

ParseFail == [ok |-> FALSE, val |-> Undef, next |-> 0]

Parsed(val, next) == [ok |-> TRUE, val |-> val, next |-> next]

RECURSIVE SkipWs(_, _)
SkipWs(s, i) == IF i <= Len(s) /\ IsSpace(s[i]) THEN SkipWs(s, i + 1) ELSE i

\* the first position from i on that holds a double quote, or 0
RECURSIVE QuoteFrom(_, _)
QuoteFrom(s, i) == IF i > Len(s) THEN 0 ELSE IF s[i] = "\"" THEN i ELSE QuoteFrom(s, i + 1)

StringUpTo(s, i, j) ==
  IF j = 0 \/ (\E x \in (i + 1)..(j - 1) : s[x] = "\\") THEN ParseFail
  ELSE Parsed(Str(SubSeq(s, i + 1, j - 1)), j + 1)

\* JSON string at position i; escape sequences are not taken
ParseString(s, i) ==
  IF i > Len(s) \/ s[i] # "\"" THEN ParseFail ELSE StringUpTo(s, i, QuoteFrom(s, i + 1))

RECURSIVE NumEnd(_, _)
NumEnd(s, i) ==
  IF i <= Len(s) /\ (IsDigit(s[i]) \/ s[i] \in {"-", "+", ".", "e", "E"}) THEN NumEnd(s, i + 1) ELSE i

RECURSIVE Pow10(_)
Pow10(e) == IF e = 0 THEN 1 ELSE 10 * Pow10(e - 1)

\* the first position from i on that holds e or E, or 0
RECURSIVE ExpAt(_, _)
ExpAt(body, i) ==
  IF i > Len(body) THEN 0 ELSE IF body[i] \in {"e", "E"} THEN i ELSE ExpAt(body, i + 1)

\* int frac?: digits without a leading zero, then optionally a dot and digits
ValidMantissa(mant, d) ==
  /\ d # 1 /\ d # Len(mant) /\ mant # <<>>
  /\ \A i \in 1..Len(mant) : i = d \/ IsDigit(mant[i])
  /\ mant[1] # "0" \/ Len(mant) = 1 \/ d = 2

\* m * 10^e; a positive exponent above 308 gives Infinity (mantissas here
\* are between 1 and 1.79)
Scaled(m, eNeg, eDig) ==
  IF m = 0 THEN Num(0)
  ELSE IF ~eNeg /\ DigitsVal(eDig) > 308 THEN NonFinite
  ELSE IF eNeg THEN Num(m \div Pow10(DigitsVal(eDig)))
  ELSE Num(m * Pow10(DigitsVal(eDig)))

JsonExponential(sign, mant, eNeg, eDig) ==
  IF ValidMantissa(mant, DotAt(mant)) /\ eDig # <<>> /\ AllDigits(eDig)
  THEN Parsed(Scaled(sign * UnsignedLit(mant).n, eNeg, eDig), 0)
  ELSE ParseFail

JsonUnsigned(sign, body, ePos) ==
  IF ePos = 0 THEN JsonExponential(sign, body, FALSE, <<"0">>)
  ELSE IF ePos = Len(body) THEN ParseFail
  ELSE IF body[ePos + 1] \in {"-", "+"}
    THEN JsonExponential(sign, SubSeq(body, 1, ePos - 1), body[ePos + 1] = "-",
                         SubSeq(body, ePos + 2, Len(body)))
  ELSE JsonExponential(sign, SubSeq(body, 1, ePos - 1), FALSE, SubSeq(body, ePos + 1, Len(body)))

\* JSON number: -? int frac? exp?
JsonNumber(tok) ==
  IF tok # <<>> /\ Head(tok) = "-" THEN JsonUnsigned(0 - 1, Tail(tok), ExpAt(Tail(tok), 1))
  ELSE JsonUnsigned(1, tok, ExpAt(tok, 1))

StartsAt(s, i, word) == i + Len(word) - 1 <= Len(s) /\ SubSeq(s, i, i + Len(word) - 1) = word

EndingAt(r, j) == IF r.ok THEN Parsed(r.val, j) ELSE ParseFail

NumberUpTo(s, i, j) == IF j = i THEN ParseFail ELSE EndingAt(JsonNumber(SubSeq(s, i, j - 1)), j)

\* JSON value at position i: a string, a number, true, false or null
ParseValue(s, i) ==
  IF i > Len(s) THEN ParseFail
  ELSE IF s[i] = "\"" THEN ParseString(s, i)
  ELSE IF StartsAt(s, i, <<"t", "r", "u", "e">>) THEN Parsed(Bool(TRUE), i + 4)
  ELSE IF StartsAt(s, i, <<"f", "a", "l", "s", "e">>) THEN Parsed(Bool(FALSE), i + 5)
  ELSE IF StartsAt(s, i, <<"n", "u", "l", "l">>) THEN Parsed(Null, i + 4)
  ELSE NumberUpTo(s, i, NumEnd(s, i))

\* the members of a JSON object from position i to its closing brace; of two
\* members with the same key the later one stays
RECURSIVE ParseMembers(_, _, _)
MemberEnd(s, obj, e) ==
  IF e > Len(s) THEN ParseFail
  ELSE IF s[e] = "," THEN ParseMembers(s, SkipWs(s, e + 1), obj)
  ELSE IF s[e] = "}" THEN Parsed(obj, e + 1)
  ELSE ParseFail

MemberValue(s, obj, key, v) ==
  IF ~v.ok THEN ParseFail ELSE MemberEnd(s, Spread(obj, key, v.val), SkipWs(s, v.next))

MemberColon(s, obj, key, c) ==
  IF c > Len(s) THEN ParseFail
  ELSE IF s[c] # ":" THEN ParseFail
  ELSE MemberValue(s, obj, key, ParseValue(s, SkipWs(s, c + 1)))

MemberKey(s, obj, k) ==
  IF ~k.ok THEN ParseFail ELSE MemberColon(s, obj, KeyName(k.val.s), SkipWs(s, k.next))

ParseMembers(s, i, obj) == MemberKey(s, obj, ParseString(s, i))

ObjectFrom(s, i) ==
  IF i <= Len(s) /\ s[i] = "}" THEN Parsed(<<>>, i + 1) ELSE ParseMembers(s, i, <<>>)

WholeText(s, r) == IF r.ok /\ SkipWs(s, r.next) = Len(s) + 1 THEN r ELSE ParseFail

\* JSON.parse(s) for a text that starts with "{": an object whose values
\* are strings, numbers, true, false or null; ok is FALSE where it throws
JSONParse(s) == WholeText(s, ObjectFrom(s, SkipWs(s, 2)))

BridgeAccepts_anyObject(obj) == TRUE

\* isSample || isEvent
BridgeAccepts(obj) ==
  LET isSample == TypeOf(Get(obj, "pitch")) = "number"
      isEvent == TypeOf(Get(obj, "event")) = "string"
  IN isSample \/ isEvent

\* postJSON(obj); sent++
postJSON(obj) ==
  bridge' = [bridge EXCEPT !.lines = @ + 1,
                           !.posted = Append(@, Stringify(obj)),
                           !.inflight = @ + 1,
                           !.sent = @ + 1]

\* parser.on("data", (line) => ...)
SerialData(line) ==
  /\ bridge.lines < MaxLines
  /\ LET s == Trim(line) IN
     IF s = <<>> THEN bridge' = [bridge EXCEPT !.lines = @ + 1]
     ELSE IF Head(s) # "{" \/ s[Len(s)] # "}" THEN bridge' = [bridge EXCEPT !.lines = @ + 1]
     ELSE IF ~JSONParse(s).ok
       THEN bridge' = [bridge EXCEPT !.lines = @ + 1,
                                     !.console = Append(@, "[JSON parse error]")]
     ELSE IF ~BridgeAccepts(JSONParse(s).val) THEN bridge' = [bridge EXCEPT !.lines = @ + 1]
     ELSE postJSON(JSONParse(s).val)
  /\ UNCHANGED <<latest, history, now, wssClients, readyState, sent, appendCalls, pending,
                 file, nReq, res, env, analysis, handler, console,
                 viewer, posture, relay, firmware>>

\* setInterval(..., 1000): the count of the last second is logged and reset
Interval ==
  /\ bridge.sent > 0
  /\ bridge' = [bridge EXCEPT !.sent = 0, !.console = Append(@, "[Bridge] sent")]
  /\ UNCHANGED <<latest, history, now, wssClients, readyState, sent, appendCalls, pending,
                 file, nReq, res, env, analysis, handler, console,
                 viewer, posture, relay, firmware>>

\* the response callback of http.request
PostAnswered(statusCode) ==
  /\ bridge.inflight > 0
  /\ bridge' = [bridge EXCEPT !.inflight = @ - 1,
                              !.console = IF statusCode >= 400 THEN Append(@, "[HTTP]") ELSE @]
  /\ UNCHANGED <<latest, history, now, wssClients, readyState, sent, appendCalls, pending,
                 file, nReq, res, env, analysis, handler, console,
                 viewer, posture, relay, firmware>>

\* req.on("error"), also after the timeout destroyed the request
PostError ==
  /\ bridge.inflight > 0
  /\ bridge' = [bridge EXCEPT !.inflight = @ - 1, !.console = Append(@, "[POST error]")]
  /\ UNCHANGED <<latest, history, now, wssClients, readyState, sent, appendCalls, pending,
                 file, nReq, res, env, analysis, handler, console,
                 viewer, posture, relay, firmware>>

(* ---------------------------- TelemetryWebSocket.swift ---------------- *)
\* an optional field of a decoded message, and optional ?? value
Field(msg, k) == IF k \in DOMAIN msg THEN <<msg[k]>> ELSE <<>>

OrElse(opt, value) == IF opt = <<>> THEN value ELSE opt[1]

\* disconnect(): the timer is invalidated and dropped, the socket cancelled
\* and dropped (onConnectionChange is never set)
disconnect(v) ==
  [v EXCEPT !.scheduled = @ \ {v.reconnectTimer},
            !.reconnectTimer = 0,
            !.cancelled = IF v.socket = 0 THEN @ ELSE @ \cup {v.socket},
            !.socket = 0,
            !.isConnected = FALSE]

\* listen(): socket?.receive registers a completion handler
listen(v) == IF v.socket = 0 THEN v ELSE [v EXCEPT !.receiving = @ \cup {v.socket}]

\* connect()
connect(v) ==
  LET d == IF v.socket # 0 THEN disconnect(v) ELSE v IN
  listen([d EXCEPT !.sockets = d.sockets + 1, !.socket = d.sockets + 1, !.isConnected = TRUE])

\* PostureViewModel.start()
Start ==
  /\ viewer.sockets < MaxSockets
  /\ viewer' = [connect(viewer) EXCEPT !.called = "start"]
  /\ UNCHANGED <<latest, history, now, wssClients, readyState, sent, appendCalls, pending,
                 file, nReq, res, env, analysis, handler, console, bridge, posture, relay,
                 firmware>>

\* PostureViewModel.stop()
Stop ==
  /\ viewer' = [disconnect(viewer) EXCEPT !.called = "stop"]
  /\ UNCHANGED <<latest, history, now, wssClients, readyState, sent, appendCalls, pending,
                 file, nReq, res, env, analysis, handler, console, bridge, posture, relay,
                 firmware>>

\* the reconnect timer fires (it does not repeat): connect()
TimerFires(t) ==
  /\ t \in viewer.scheduled
  /\ viewer.sockets < MaxSockets
  /\ viewer' = connect([viewer EXCEPT !.scheduled = @ \ {t}])
  /\ UNCHANGED <<latest, history, now, wssClients, readyState, sent, appendCalls, pending,
                 file, nReq, res, env, analysis, handler, console, bridge, posture, relay,
                 firmware>>

\* the completion handler of socket s runs with .success: decoded is the
\* message, or <<>> where the text does not decode; then listen() again
ReceiveSuccess(s, decoded) ==
  /\ viewer.callback.pc = "idle"
  /\ s \in viewer.receiving \ viewer.cancelled
  /\ Len(posture.mainQueue) + Len(decoded) <= MaxQueued
  /\ viewer' = listen([viewer EXCEPT !.receiving = @ \ {s}])
  /\ posture' = [posture EXCEPT !.mainQueue = @ \o decoded]
  /\ UNCHANGED <<latest, history, now, wssClients, readyState, sent, appendCalls, pending,
                 file, nReq, res, env, analysis, handler, console, bridge, relay, firmware>>

\* the completion handler of socket s starts with .failure, on the
\* session's delegate queue, which runs one handler at a time
ReceiveFailure(s) ==
  /\ viewer.callback.pc = "idle"
  /\ s \in viewer.receiving
  /\ viewer.timers < MaxTimers
  /\ viewer' = [viewer EXCEPT !.receiving = @ \ {s},
                              !.callback = [pc |-> "oldSocket", of |-> s, oldSocket |-> 0]]
  /\ UNCHANGED <<latest, history, now, wssClients, readyState, sent, appendCalls, pending,
                 file, nReq, res, env, analysis, handler, console, bridge, posture, relay,
                 firmware>>

\* the statements of case .failure, one at a time: let oldSocket =
\* self.socket; self.socket = nil; self.isConnected = false;
\* oldSocket?.cancel(...); scheduleReconnect()
FailureStep(v) ==
  CASE v.callback.pc = "oldSocket" ->
         [v EXCEPT !.callback.pc = "clear", !.callback.oldSocket = v.socket]
    [] v.callback.pc = "clear" -> [v EXCEPT !.socket = 0, !.callback.pc = "flag"]
    [] v.callback.pc = "flag" -> [v EXCEPT !.isConnected = FALSE, !.callback.pc = "cancel"]
    [] v.callback.pc = "cancel" ->
         [v EXCEPT !.cancelled = IF v.callback.oldSocket = 0 THEN @
                                 ELSE @ \cup {v.callback.oldSocket},
                   !.callback.pc = "reconnect"]
    [] v.callback.pc = "reconnect" ->
         [v EXCEPT !.scheduled = (@ \ {v.reconnectTimer}) \cup {v.timers + 1},
                   !.reconnectTimer = v.timers + 1,
                   !.timers = v.timers + 1,
                   !.callback = NoCallback]

\* the failure handler that is running executes its next statement
FailureNext ==
  /\ viewer.callback.pc # "idle"
  /\ viewer' = FailureStep(viewer)
  /\ UNCHANGED <<latest, history, now, wssClients, readyState, sent, appendCalls, pending,
                 file, nReq, res, env, analysis, handler, console, bridge, posture, relay,
                 firmware>>

handle_sampleOnly(p, msg) ==
  IF Field(msg, "kind") = <<"event">> THEN p
  ELSE IF Field(msg, "kind") # <<"sample">> THEN p
  ELSE LET pitch == OrElse(Field(msg, "pitch_smooth"), OrElse(Field(msg, "pitch"), 0))
           roll == OrElse(Field(msg, "roll"), 0)
       IN IF Field(msg, "source") = <<1>>
            THEN [p EXCEPT !.upperPitch = pitch, !.upperRoll = roll]
          ELSE IF Field(msg, "source") = <<2>> THEN [p EXCEPT !.lowerPitch = pitch]
          ELSE p

\* PostureViewModel.handle(msg)
handle(p, msg) ==
  IF Field(msg, "kind") = <<"event">> THEN [p EXCEPT !.lastEvent = Field(msg, "event")]
  ELSE IF Field(msg, "kind") # <<"sample">> THEN p
  ELSE LET pitch == OrElse(Field(msg, "pitch_smooth"), OrElse(Field(msg, "pitch"), 0))
           roll == OrElse(Field(msg, "roll"), 0)
       IN IF Field(msg, "source") = <<1>>
            THEN [p EXCEPT !.upperPitch = pitch, !.upperRoll = roll]
          ELSE IF Field(msg, "source") = <<2>> THEN [p EXCEPT !.lowerPitch = pitch]
          ELSE p

\* the main queue runs the block of onMessage: self?.handle(msg)
MainQueueRuns ==
  /\ posture.mainQueue # <<>>
  /\ posture' = handle([posture EXCEPT !.mainQueue = Tail(@)], Head(posture.mainQueue))
  /\ UNCHANGED <<latest, history, now, wssClients, readyState, sent, appendCalls, pending,
                 file, nReq, res, env, analysis, handler, console, bridge, viewer, relay,
                 firmware>>

(* ---------------------------- src/server.js (legacy relay) ------------ *)
\* JSON.parse(text) for an object as JSONParse reads it, or for a single
\* string, number, true, false or null
JSONParseText(s, i) ==
  IF i <= Len(s) /\ s[i] = "{" THEN WholeText(s, ObjectFrom(s, SkipWs(s, i + 1)))
  ELSE WholeText(s, ParseValue(s, i))

\* 12 + 12 * Math.sin(t) in tenths, t = 0.15 * k
DemoPitch(k) == CASE k = 0 -> 120 [] k = 1 -> 138 [] k = 2 -> 155 [] k = 3 -> 172 [] OTHER -> 188

\* broadcast(obj) of src/server.js
relayBroadcast(r, obj) ==
  [r EXCEPT !.sent = [c \in Clients |->
                        IF r.readyState[c] = "OPEN" THEN Append(@[c], Stringify(obj)) ELSE @[c]]]

RelayReply(r, status, ok, error, alreadyRunning) ==
  [r EXCEPT !.res = [status |-> status, ok |-> ok, error |-> error,
                     alreadyRunning |-> alreadyRunning]]

postPitch_coerces(r, body, t) ==
  LET pitch == toNum(Get(body, "pitch"))
      ts == Get(body, "ts")
  IN IF pitch = Undef THEN RelayReply(r, 400, FALSE, "pitch must be a number", FALSE)
     ELSE LET l == [pitch |-> pitch, ts |-> IF TypeOf(ts) = "number" THEN ts ELSE Whole(t)] IN
          RelayReply(relayBroadcast([r EXCEPT !.latest = l], l), 200, TRUE, "", FALSE)

\* app.post("/pitch"), with Date.now() = t
postPitch(r, body, t) ==
  LET pitch == Get(body, "pitch")
      ts == Get(body, "ts")
  IN IF TypeOf(pitch) # "number" THEN RelayReply(r, 400, FALSE, "pitch must be a number", FALSE)
     ELSE LET l == [pitch |-> pitch, ts |-> IF TypeOf(ts) = "number" THEN ts ELSE Whole(t)] IN
          RelayReply(relayBroadcast([r EXCEPT !.latest = l], l), 200, TRUE, "", FALSE)

RelayPostPitch(body) ==
  /\ relay.ops < MaxRelayOps
  /\ relay' = [postPitch(relay, body, now) EXCEPT !.ops = @ + 1]
  /\ UNCHANGED <<latest, history, now, wssClients, readyState, sent, appendCalls, pending,
                 file, nReq, res, env, analysis, handler, console, bridge, viewer, posture,
                 firmware>>

\* app.post("/demo/start")
RelayDemoStart ==
  /\ relay.demoTimer # 0 \/ relay.created < MaxDemoTimers
  /\ relay' = IF relay.demoTimer # 0 THEN RelayReply(relay, 200, TRUE, "", TRUE)
              ELSE RelayReply([relay EXCEPT !.t = 0,
                                            !.demoTimer = relay.created + 1,
                                            !.intervals = @ \cup {relay.created + 1},
                                            !.created = @ + 1],
                              200, TRUE, "", FALSE)
  /\ UNCHANGED <<latest, history, now, wssClients, readyState, sent, appendCalls, pending,
                 file, nReq, res, env, analysis, handler, console, bridge, viewer, posture,
                 firmware>>

\* the setInterval callback of the demo timer
RelayDemoTick(timer) ==
  /\ timer \in relay.intervals
  /\ relay.ops < MaxRelayOps
  /\ LET l == [pitch |-> Num(DemoPitch(relay.t)), ts |-> Whole(now)] IN
     relay' = relayBroadcast([relay EXCEPT !.latest = l, !.t = @ + 1, !.ops = @ + 1], l)
  /\ UNCHANGED <<latest, history, now, wssClients, readyState, sent, appendCalls, pending,
                 file, nReq, res, env, analysis, handler, console, bridge, viewer, posture,
                 firmware>>

demoStop_forgetsTimer(r) == RelayReply([r EXCEPT !.demoTimer = 0], 200, TRUE, "", FALSE)

\* app.post("/demo/stop")
demoStop(r) ==
  RelayReply([r EXCEPT !.intervals = @ \ {r.demoTimer}, !.demoTimer = 0], 200, TRUE, "", FALSE)

RelayDemoStop ==
  /\ relay' = demoStop(relay)
  /\ UNCHANGED <<latest, history, now, wssClients, readyState, sent, appendCalls, pending,
                 file, nReq, res, env, analysis, handler, console, bridge, viewer, posture,
                 firmware>>

\* wss.on("connection"): the latest value is sent
RelayConnect(c) ==
  /\ relay.readyState[c] = "NONE"
  /\ \A d \in Clients : d < c => relay.readyState[d] # "NONE"
  /\ relay' = [relay EXCEPT !.readyState[c] = "OPEN",
                            !.sent[c] = Append(@, Stringify(relay.latest))]
  /\ UNCHANGED <<latest, history, now, wssClients, readyState, sent, appendCalls, pending,
                 file, nReq, res, env, analysis, handler, console, bridge, viewer, posture,
                 firmware>>

\* the body of ws.on("message") after JSON.parse: a thrown error (the text
\* is not JSON, or parsed is null) is caught and ignored
onMessage(r, parsed, t) ==
  IF ~parsed.ok THEN r
  ELSE IF parsed.val = Null THEN r
  ELSE IF TypeOf(Get(parsed.val, "pitch")) # "number" THEN r
  ELSE LET l == [pitch |-> Get(parsed.val, "pitch"),
                 ts |-> Coalesce(Get(parsed.val, "ts"), Whole(t))] IN
       relayBroadcast([r EXCEPT !.latest = l], l)

RelayMessage(c, data) ==
  /\ relay.readyState[c] = "OPEN"
  /\ relay.ops < MaxRelayOps
  /\ relay' = [onMessage(relay, JSONParseText(data, SkipWs(data, 1)), now) EXCEPT !.ops = @ + 1]
  /\ UNCHANGED <<latest, history, now, wssClients, readyState, sent, appendCalls, pending,
                 file, nReq, res, env, analysis, handler, console, bridge, viewer, posture,
                 firmware>>

\* ws.on("close")
RelayClose(c) ==
  /\ relay.readyState[c] = "OPEN"
  /\ relay' = [relay EXCEPT !.readyState[c] = "CLOSED"]
  /\ UNCHANGED <<latest, history, now, wssClients, readyState, sent, appendCalls, pending,
                 file, nReq, res, env, analysis, handler, console, bridge, viewer, posture,
                 firmware>>

(* ---------------------------- firmware (part_000) --------------------- *)
CALIB_SECONDS == 5

CALIB_INTERVAL_MS == 1000

DEBOUNCE_MS == 35

STREAM_INTERVAL_MS == 50

Prints(f, line) == [f EXCEPT !.serial = Append(@, line)]

\* pollButtonClick(nowMs), with rawPressed() = raw
pollButtonClick(f, nowMs, raw) ==
  LET tracked == IF raw # f.lastRawPressed
                 THEN [f EXCEPT !.lastRawPressed = raw, !.lastRawChangeMs = nowMs]
                 ELSE f
      committed == IF nowMs - tracked.lastRawChangeMs >= DEBOUNCE_MS
                   THEN [tracked EXCEPT !.debouncedPressed = raw]
                   ELSE tracked
  IN [committed EXCEPT !.clicked = ~committed.lastDebouncedPressed /\ committed.debouncedPressed,
                       !.lastDebouncedPressed = committed.debouncedPressed]

startCalibration(f, nowMs) ==
  Prints([f EXCEPT !.calibrating = TRUE, !.calibCount = 0, !.calibSum = 0,
                   !.lastCalibSampleMs = nowMs],
         "calibration_start")

finishCalibration(f) ==
  IF f.calibCount > 0
  THEN Prints([f EXCEPT !.baselinePitch = f.calibSum \div f.calibCount,
                        !.baselineValid = TRUE,
                        !.calibrating = FALSE],
              "calibration")
  ELSE Prints([f EXCEPT !.calibrating = FALSE], "calibration_failed")

StartsCalibration_anyClick(clicked, calibrating) == clicked

\* clicked && !calibrating
StartsCalibration(clicked, calibrating) == clicked /\ ~calibrating

\* loop, step 3: calibration sampling, once per second while calibrating
CalibrationSample(f, nowMs, pitch_smooth) ==
  IF f.calibrating /\ nowMs - f.lastCalibSampleMs >= CALIB_INTERVAL_MS
  THEN LET sampled == Prints([f EXCEPT !.lastCalibSampleMs = @ + CALIB_INTERVAL_MS,
                                       !.calibSum = @ + pitch_smooth,
                                       !.calibCount = @ + 1],
                             "calibration_progress")
       IN IF sampled.calibCount >= CALIB_SECONDS THEN finishCalibration(sampled) ELSE sampled
  ELSE f

\* loop, step 2 after the rate check: reading is <<>> where readXYZ6 fails,
\* else the smoothed pitch computed from it
ReadAndStream(f, nowMs, reading) ==
  IF reading = <<>> THEN Prints(f, "read_failed")
  ELSE Prints(CalibrationSample(f, nowMs, reading[1]), "sample")

\* loop, step 2: read sensor and stream at 20 Hz
Stream(f, nowMs, reading) ==
  IF nowMs - f.lastStreamMs >= STREAM_INTERVAL_MS
  THEN ReadAndStream([f EXCEPT !.lastStreamMs = nowMs], nowMs, reading)
  ELSE f

\* loop(), with millis() = nowMs
loop(f, nowMs, raw, reading) ==
  LET polled == pollButtonClick([f EXCEPT !.nowMs = nowMs, !.serial = <<>>], nowMs, raw) IN
  Stream(IF StartsCalibration(polled.clicked, polled.calibrating)
         THEN startCalibration(polled, nowMs)
         ELSE polled,
         nowMs, reading)

\* one call of loop(), delta milliseconds after the last one
Loop(delta, raw, reading) ==
  /\ firmware.loops < MaxLoops
  /\ firmware' = [loop(firmware, firmware.nowMs + delta, raw, reading) EXCEPT !.loops = @ + 1]
  /\ UNCHANGED <<latest, history, now, wssClients, readyState, sent, appendCalls, pending,
                 file, nReq, res, env, analysis, handler, console, bridge, viewer, posture,
                 relay>>

\* time passes
Tick ==
  /\ now < MaxClock
  /\ now' = now + 1
  /\ UNCHANGED <<latest, history, wssClients, readyState, sent, appendCalls, pending, file,
                 nReq, res, env, analysis, handler, console,
                 bridge,
                 viewer, posture, relay, firmware>>

(* ---------------------------- analysis window -------------------------- *)
Last0(seq) == seq[Len(seq)]

\* Math.floor, Math.min and Math.max on finite numbers (in tenths)
MathFloor(v) == Num((v.n \div 10) * 10)

MathMin(a, b) == IF a.n <= b.n THEN a ELSE b

MathMax(a, b) == IF a.n >= b.n THEN a ELSE b

EffectiveWindow_noClamp(reqBody) ==
  MathFloor(Coalesce(toNum(Get(reqBody, "window")), ANALYSIS_DEFAULT_WINDOW))

\* windowReq = toNum(req.body?.window) ?? ANALYSIS_DEFAULT_WINDOW;
\* window = Math.max(20, Math.min(ANALYSIS_MAX_WINDOW, Math.floor(windowReq)))
EffectiveWindow(reqBody) ==
  LET windowReq == Coalesce(toNum(Get(reqBody, "window")), ANALYSIS_DEFAULT_WINDOW) IN
  MathMax(Whole(20), MathMin(ANALYSIS_MAX_WINDOW, MathFloor(windowReq)))

pickWindow_all(arr, window) == arr

pickWindow_fromStart(arr, window) ==
  SubSeq(arr, 1, IF Len(arr) < window.n \div 10 THEN Len(arr) ELSE window.n \div 10)

\* arr.slice(Math.max(0, arr.length - window)): slice drops the fraction of
\* its start index
pickWindow(arr, window) ==
  LET start == MathMax(Whole(0), Num(10 * Len(arr) - window.n)) IN
  SubSeq(arr, (start.n \div 10) + 1, Len(arr))

\* .filter((x) => x.kind === "sample")
IsSampleRecord(x) == Get(x, "kind") = KIND_SAMPLE

\* (a, b) => (a.ts ?? 0) - (b.ts ?? 0)
CompareTs(a, b) == Coalesce(Get(a, "ts"), Whole(0)).n - Coalesce(Get(b, "ts"), Whole(0)).n

\* Array.prototype.sort with CompareTs: a stable sort
RECURSIVE InsertSorted(_, _)
InsertSorted(sorted, x) ==
  IF sorted = <<>> THEN <<x>>
  ELSE IF CompareTs(Last0(sorted), x) <= 0 THEN Append(sorted, x)
  ELSE Append(InsertSorted(SubSeq(sorted, 1, Len(sorted) - 1), x), Last0(sorted))

RECURSIVE SortByTs(_, _)
SortByTs(todo, sorted) ==
  IF todo = <<>> THEN sorted ELSE SortByTs(Tail(todo), InsertSorted(sorted, Head(todo)))

CombinedSamples_secondFirst(source, window) ==
  LET s1 == SelectSeq(pickWindow(history[1], window), IsSampleRecord)
      s2 == SelectSeq(pickWindow(history[2], window), IsSampleRecord)
  IN IF source = Whole(1) \/ source = Str(<<"1">>) THEN s1
     ELSE IF source = Whole(2) \/ source = Str(<<"2">>) THEN s2
     ELSE SortByTs(s2 \o s1, <<>>)

\* combinedSamples for the requested source selector
CombinedSamples(source, window) ==
  LET s1 == SelectSeq(pickWindow(history[1], window), IsSampleRecord)
      s2 == SelectSeq(pickWindow(history[2], window), IsSampleRecord)
  IN IF source = Whole(1) \/ source = Str(<<"1">>) THEN s1
     ELSE IF source = Whole(2) \/ source = Str(<<"2">>) THEN s2
     ELSE SortByTs(s1 \o s2, <<>>)

Analyze_sortsHistory(reqBody, geminiFails) ==
  /\ analysis' = [status |-> IF geminiFails THEN 500 ELSE 200,
                   window |-> EffectiveWindow(reqBody),
                   source |-> Coalesce(Get(reqBody, "source"), Str(<<"b", "o", "t", "h">>)),
                   samples |-> CombinedSamples(Coalesce(Get(reqBody, "source"),
                                                        Str(<<"b", "o", "t", "h">>)),
                                               EffectiveWindow(reqBody))]
  /\ history' = [s \in Sources |-> SortByTs(history[s], <<>>)]
  /\ console' = IF env.GEMINI_API_KEY /\ geminiFails THEN Append(console, ANALYZE_ERROR)
                ELSE console
  /\ UNCHANGED <<latest, now, wssClients, readyState, sent, appendCalls, pending, file, nReq,
                 res, env, handler,
                 bridge,
                 viewer, posture, relay, firmware>>

\* POST /gemini/analyze; geminiFails: runGemini throws
Analyze(reqBody, geminiFails) ==
  /\ IF ~env.GEMINI_API_KEY
     THEN analysis' = [status |-> 400, window |-> Undef, source |-> Undef, samples |-> <<>>]
     ELSE LET window == EffectiveWindow(reqBody)
              source == Coalesce(Get(reqBody, "source"), Str(<<"b", "o", "t", "h">>))
          IN analysis' = [status |-> IF geminiFails THEN 500 ELSE 200,
                          window |-> window,
                          source |-> source,
                          samples |-> CombinedSamples(source, window)]
  /\ console' = IF env.GEMINI_API_KEY /\ geminiFails THEN Append(console, ANALYZE_ERROR)
                ELSE console
  /\ UNCHANGED <<latest, history, now, wssClients, readyState, sent, appendCalls, pending,
                 file, nReq, res, env, handler,
                 bridge,
                 viewer, posture, relay, firmware>>

(* ---------------------------- specifications -------------------------- *)
\* the store: requests of every shape, no subscriber, no write completes
NextStore ==
  \/ \E source \in Sources, reqBody \in Bodies : Post(source, reqBody, {})
  \/ Tick

SpecStore == Init /\ [][NextStore]_vars

\* the hub: requests and the life of the WebSocket connections
NextHub ==
  \/ \E source \in Sources, reqBody \in HubBodies, fail \in SUBSET Clients :
       Post(source, reqBody, fail)
  \/ \E c \in Clients : Connect(c)
  \/ \E c \in Clients : ClientClosing(c)
  \/ \E c \in Clients : ClientClosed(c)
  \/ Tick

SpecHub == Init /\ [][NextHub]_vars

\* the log: requests, subscribers and the completions of the fs.appendFile
\* calls, which the thread pool finishes in any order
NextLog ==
  \/ \E source \in Sources, reqBody \in HubBodies : Post(source, reqBody, {})
  \/ \E c \in Clients : Connect(c)
  \/ \E source \in Sources, i \in 1..MaxReq : AppendDone(source, i)
  \/ \E source \in Sources, i \in 1..MaxReq : AppendFail(source, i)

SpecLog == Init /\ [][NextLog]_vars

\* normalisation: one request of any shape to a server that has just
\* started, with subscribers connecting before or after it
FirstPost(source, reqBody) == nReq = 0 /\ Post(source, reqBody, {})

NextNorm ==
  \/ \E source \in Sources, reqBody \in NormBodies : FirstPost(source, reqBody)
  \/ \E c \in Clients : Connect(c)
  \/ Tick

SpecNorm == Init /\ [][NextNorm]_vars

\* analysis: a server that has ingested a trace of requests on each source,
\* then serves analysis requests and one more ingest
MaxTrace == 23

DEFAULT_MAX_BUFFER == 2000

\* the traces ingested before the analysis: pattern and length per source
TraceShapes ==
  { <<"up", 0, "up", 0>>, <<"up", 2, "flat", MaxTrace>>, <<"mixed", MaxTrace - 2, "up", 2>>,
    <<"up", MaxTrace, "mixed", MaxTrace>>, <<"mixed", MaxTrace, "flat", MaxTrace - 2>>,
    <<"flat", MaxTrace, "up", 0>> }

\* the i-th raw body of a trace
TraceBody(p, i) ==
  IF p = "up" THEN [pitch |-> Whole(i), ts |-> Whole(i)]
  ELSE IF p = "flat" THEN [pitch |-> Whole(i)]
  ELSE IF i % 3 = 0 THEN [event |-> Str(<<"b">>), ts |-> Whole(i)]
  ELSE [pitch |-> Whole(i), ts |-> Whole(2 * MaxTrace - i)]

\* the record handleIncoming stores for an acceptable raw body
Ingested(source, reqBody, t) ==
  IF TypeOf(Get(reqBody, "event")) = "string"
  THEN Spread(normalizeEvent(reqBody, t).msg, "source", Whole(source))
  ELSE Spread(normalizeSample(reqBody, t).msg, "source", Whole(source))

TraceHistory(source, p, len) ==
  [i \in 1..len |-> Ingested(source, TraceBody(p, i), StartTime)]

TraceLatest(source, h) ==
  LET idx == {i \in 1..Len(h) : IsSampleRecord(h[i])} IN
  IF idx = {} THEN [pitch |-> Whole(0), ts |-> Whole(StartTime), source |-> Whole(source)]
  ELSE h[CHOOSE i \in idx : \A j \in idx : j <= i]

AnalysisEnvs ==
  {[MAX_BUFFER |-> DEFAULT_MAX_BUFFER, ANALYSIS_DEFAULT_WINDOW |-> dm[1],
    ANALYSIS_MAX_WINDOW |-> dm[2], GEMINI_API_KEY |-> dm[3]] :
     dm \in { <<Whole(300), Whole(10), TRUE>>, <<Whole(300), Whole(21), TRUE>>,
              <<Num(225), Num(215), TRUE>>, <<Whole(300), Whole(1000), TRUE>>,
              <<Num(225), Whole(1000), TRUE>>, <<Whole(300), Whole(1000), FALSE>> }}

AnalyzeBodies ==
  {Compact([window |-> w, source |-> src]) :
     w \in {Undef, Num(0 - 5), Num(217), Str(<<"2", "2">>), Str(<<"x">>), Whole(5000)},
     src \in {Undef, Whole(1), Str(<<"2">>), Str(<<"b", "o", "t", "h">>)}}

\* the requests ingested after the trace
LateBodies == {[pitch |-> Whole(10)], [event |-> Str(<<"b">>), ts |-> Str(<<"3">>)]}

InitAnalysis ==
  /\ \E shape \in TraceShapes :
        history = [s \in Sources |-> TraceHistory(s, shape[2 * s - 1], shape[2 * s])]
  /\ latest = [s \in Sources |-> TraceLatest(s, history[s])]
  /\ appendCalls = [s \in Sources |-> [i \in 1..Len(history[s]) |-> Stringify(history[s][i])]]
  /\ file = appendCalls
  /\ pending = [s \in Sources |-> {}]
  /\ now = StartTime
  /\ wssClients = <<>>
  /\ readyState = [c \in Clients |-> "NONE"]
  /\ sent = [c \in Clients |-> <<>>]
  /\ nReq = 0
  /\ res = [status |-> 0, ok |-> FALSE, error |-> ""]
  /\ env \in AnalysisEnvs
  /\ analysis = NoAnalysis
  /\ handler = Idle
  /\ console = (IF env.GEMINI_API_KEY THEN <<>> ELSE <<KEY_WARNING>>) \o StartUpLines
  /\ bridge = BridgeStart
  /\ viewer = ViewerStart
  /\ posture = PostureStart
  /\ relay = RelayStart
  /\ firmware = FirmwareStart

\* the first analysis request of a behaviour
FirstAnalyze(reqBody, geminiFails) == analysis = NoAnalysis /\ Analyze(reqBody, geminiFails)

NextAnalysis ==
  \/ \E reqBody \in AnalyzeBodies, geminiFails \in BOOLEAN : FirstAnalyze(reqBody, geminiFails)
  \/ \E source \in Sources, reqBody \in LateBodies : FirstPost(source, reqBody)

SpecAnalysis == InitAnalysis /\ [][NextAnalysis]_vars

\* the handler statement by statement: while it runs, only writes to the
\* log files complete
StepBodies ==
  {[pitch |-> Whole(10)], [event |-> Str(<<"b">>), x |-> NonFinite], [pitch |-> Str(<<"a">>)]}

NextSteps ==
  \/ \E source \in Sources, reqBody \in StepBodies : Receive(source, reqBody)
  \/ DoSetLatest
  \/ DoAppend
  \/ DoBroadcast
  \/ DoPush
  \/ DoReply
  \/ \E c \in Clients : ConnectWhenIdle(c)
  \/ \E source \in Sources, i \in 1..MaxReq : AppendDone(source, i)
  \/ \E source \in Sources, i \in 1..MaxReq : AppendFail(source, i)

SpecSteps == Init /\ [][NextSteps]_vars

\* every statement of a running handler is eventually executed; nothing is
\* assumed about the completion of a write
LiveSteps == SpecSteps /\ WF_vars(HandlerStep)

\* ingest, subscription and analysis together: records with equal and with
\* different ts arrive on both sources, subscribers connect, one analysis
MergeBodies ==
  {[pitch |-> Whole(10)], [pitch |-> Whole(20)], [pitch |-> Whole(30), ts |-> Whole(0 - 1)],
   [event |-> Str(<<"b">>), x |-> NonFinite]}

MergeAnalyzeBodies == {[source |-> Str(<<"b", "o", "t", "h">>)], [source |-> Whole(1)]}

NextMerge ==
  \/ \E source \in Sources, reqBody \in MergeBodies : Post(source, reqBody, {})
  \/ \E c \in Clients : Connect(c)
  \/ \E reqBody \in MergeAnalyzeBodies, geminiFails \in BOOLEAN :
        FirstAnalyze(reqBody, geminiFails)

SpecMerge == Init /\ [][NextMerge]_vars

\* the serial bridge: lines of every shape arrive on the serial port
SerialLines ==
  { <<"{", "\"", "p", "i", "t", "c", "h", "\"", ":", "1", "2", ".", "5", "}">>,
    <<"{", "\"", "p", "i", "t", "c", "h", "\"", ":", "1", "2", ".", "5", "}", "\r">>,
    <<" ", " ", "{", "\"", "p", "i", "t", "c", "h", "\"", ":", "-", "3", ",", "\"", "t", "s", "\"", ":", "7", "}">>,
    <<"{", "\"", "p", "i", "t", "c", "h", "\"", ":", "\"", "1", "2", ".", "5", "\"", "}">>,
    <<"{", "\"", "e", "v", "e", "n", "t", "\"", ":", "\"", "b", "\"", "}">>,
    <<"{", "\"", "e", "v", "e", "n", "t", "\"", ":", "\"", "\"", "}">>,
    <<"{", "\"", "e", "v", "e", "n", "t", "\"", ":", "5", "}">>,
    <<"{", "\"", "p", "i", "t", "c", "h", "\"", ":", "n", "u", "l", "l", ",", "\"", "e", "v", "e", "n", "t", "\"", ":", "\"", "b", "\"", "}">>,
    <<"{", "\"", "a", "x", "\"", ":", "1", "}">>,
    <<"{", "}">>,
    <<"{", "p", "i", "t", "c", "h", ":", "1", "}">>,
    <<"{", "\"", "p", "i", "t", "c", "h", "\"", ":", "1">>,
    <<"p", "i", "t", "c", "h", "=", "1">>,
    <<>>,
    <<"{", "\"", "p", "i", "t", "c", "h", "\"", ":", "1", "e", "9", "9", "9", "}">>,
    <<"{", "\"", "p", "i", "t", "c", "h", "\"", ":", "1", ",", "}">>,
    <<"{", "\"", "p", "i", "t", "c", "h", "\"", ":", "t", "r", "u", "e", "}">>,
    <<"x", "{", "\"", "p", "i", "t", "c", "h", "\"", ":", "1", "}">>,
    <<"{", "\"", "p", "i", "t", "c", "h", "\"", ":", "1", "}", "{", "\"", "p", "i", "t", "c", "h", "\"", ":", "2", "}">>,
    <<"{", " ", "\"", "p", "i", "t", "c", "h", "\"", " ", ":", " ", "1", " ", "}">>,
    <<"{", "\"", "p", "i", "t", "c", "h", "\"", ":", "0", "1", "}">>,
    <<"{", "\"", "p", "i", "t", "c", "h", "\"", ":", "1", ",", "\"", "p", "i", "t", "c", "h", "\"", ":", "\"", "a", "\"", "}">>,
    <<"\"", "p", "i", "t", "c", "h", "\"", ":", "1", "}">>,
    <<"{", "\"", "p", "i", "t", "c", "h", "\"", ":", "-", "}">>,
    <<"{", "\"", "p", "i", "t", "c", "h", "\"", ":", "1", ".", "}">> }

NextBridge ==
  \/ \E line \in SerialLines : SerialData(line)
  \/ Interval
  \/ \E statusCode \in {200, 400} : PostAnswered(statusCode)
  \/ PostError

SpecBridge == Init /\ [][NextBridge]_vars

\* the viewer client: the view model starts and stops it while receive
\* callbacks and reconnect timers run
ConnectionMessages == { [kind |-> "sample", source |-> 1, pitch |-> 1] }

NextViewer ==
  \/ Start
  \/ Stop
  \/ \E t \in 1..MaxTimers : TimerFires(t)
  \/ \E s \in 1..MaxSockets, decoded \in {<<>>} \cup {<<m>> : m \in ConnectionMessages} :
       ReceiveSuccess(s, decoded)
  \/ \E s \in 1..MaxSockets : ReceiveFailure(s)
  \/ FailureNext
  \/ MainQueueRuns

SpecViewer == Init /\ [][NextViewer]_vars

\* the view model: one connection that delivers messages of every shape
ViewerMessages ==
  { [kind |-> "event", event |-> "button_click"],
    [kind |-> "event"],
    [kind |-> "event", event |-> "calibration", source |-> 1, pitch |-> 5, roll |-> 6],
    [kind |-> "sample", source |-> 1, pitch |-> 1, pitch_smooth |-> 2, roll |-> 3],
    [kind |-> "sample", source |-> 1, pitch |-> 1],
    [kind |-> "sample", source |-> 1, event |-> "x"],
    [kind |-> "sample", source |-> 2, pitch |-> 4, roll |-> 3],
    [kind |-> "sample", source |-> 2, pitch |-> 1, pitch_smooth |-> 2],
    [kind |-> "sample", source |-> 3, pitch |-> 1, roll |-> 3],
    [kind |-> "sample", pitch |-> 1, roll |-> 3],
    [source |-> 1, pitch |-> 1, roll |-> 3],
    [kind |-> "status", source |-> 2, pitch |-> 1, event |-> "x"] }

FirstStart == viewer.called = "nothing" /\ Start

NextViewModel ==
  \/ FirstStart
  \/ \E s \in 1..MaxSockets, decoded \in {<<>>} \cup {<<m>> : m \in ViewerMessages} :
       ReceiveSuccess(s, decoded)
  \/ MainQueueRuns

SpecViewModel == Init /\ [][NextViewModel]_vars

\* the legacy relay: HTTP posts, demo mode and WebSocket clients that also
\* send
PitchBodies ==
  { [pitch |-> Num(125)],
    [pitch |-> Whole(1), ts |-> Whole(7)],
    [pitch |-> Whole(1), ts |-> Str(<<"x">>)],
    [pitch |-> NonFinite],
    [pitch |-> Str(<<"1">>)],
    [pitch |-> Null, ts |-> Whole(7)],
    [ts |-> Whole(7)],
    <<>> }

RelayTexts ==
  { <<"{", "\"", "p", "i", "t", "c", "h", "\"", ":", "1", "2", ".", "5", "}">>,
    <<"{", "\"", "p", "i", "t", "c", "h", "\"", ":", "1", ",", "\"", "t", "s", "\"", ":", "7", "}">>,
    <<"{", "\"", "p", "i", "t", "c", "h", "\"", ":", "1", ",", "\"", "t", "s", "\"", ":", "\"", "x", "\"", "}">>,
    <<"{", "\"", "p", "i", "t", "c", "h", "\"", ":", "1", ",", "\"", "t", "s", "\"", ":", "n", "u", "l", "l", "}">>,
    <<"{", "\"", "p", "i", "t", "c", "h", "\"", ":", "\"", "1", "\"", "}">>,
    <<"{", "\"", "t", "s", "\"", ":", "7", "}">>,
    <<"j", "u", "n", "k">>,
    <<"n", "u", "l", "l">>,
    <<"5">>,
    <<"\"", "p", "i", "t", "c", "h", "\"">>,
    <<"{", "\"", "p", "i", "t", "c", "h", "\"", ":", "1", "e", "9", "9", "9", "}">>,
    <<"{", "\"", "p", "i", "t", "c", "h", "\"", ":", "1">>,
    <<>> }

NextRelay ==
  \/ \E body \in PitchBodies : RelayPostPitch(body)
  \/ RelayDemoStart
  \/ \E timer \in 1..MaxDemoTimers : RelayDemoTick(timer)
  \/ RelayDemoStop
  \/ \E c \in Clients : RelayConnect(c)
  \/ \E c \in Clients, data \in RelayTexts : RelayMessage(c, data)
  \/ \E c \in Clients : RelayClose(c)

SpecRelay == Init /\ [][NextRelay]_vars

\* the legacy relay without demo mode: its inputs over HTTP and WebSocket
NextRelayInput ==
  \/ \E body \in PitchBodies : RelayPostPitch(body)
  \/ \E c \in Clients : RelayConnect(c)
  \/ \E c \in Clients, data \in RelayTexts : RelayMessage(c, data)
  \/ \E c \in Clients : RelayClose(c)

SpecRelayInput == Init /\ [][NextRelayInput]_vars

\* the firmware: loop() is called at uneven intervals while the button is
\* pressed and released and sensor reads succeed or fail
LoopDeltas == {20, 50, 1000}

Readings == {<<>>, <<10>>}

NextFirmware ==
  \E delta \in LoopDeltas, raw \in BOOLEAN, reading \in Readings : Loop(delta, raw, reading)

SpecFirmware == Init /\ [][NextFirmware]_vars

(* ---------------------------- properties ------------------------------- *)
Last(seq) == seq[Len(seq)]

LastK(seq, k) == SubSeq(seq, Len(seq) - k + 1, Len(seq))

Min(a, b) == IF a < b THEN a ELSE b

IsPrefix(a, b) == Len(a) <= Len(b) /\ SubSeq(b, 1, Len(a)) = a

\* a is b with some elements left out
RECURSIVE IsSubseq(_, _)
IsSubseq(a, b) ==
  IF a = <<>> THEN TRUE
  ELSE IF b = <<>> THEN FALSE
  ELSE IF Head(a) = Head(b) THEN IsSubseq(Tail(a), Tail(b))
  ELSE IsSubseq(a, Tail(b))

\* what GET /latestN and GET /historyN answer
GetLatest(s) == Stringify(latest[s])
GetHistory(s) == [i \in 1..Len(history[s]) |-> Stringify(history[s][i])]

\* the records accepted for source s, in the order of acceptance
Accepted(s) == appendCalls[s]

KindOf(m) == Get(m, "kind")

\* the value is a number or a string that reads as a finite number
Coercible(v) ==
  \/ v.t = "number"
  \/ v.t = "string" /\ Trim(v.s) # <<>> /\ ToNumber(v.s).ok

NoEventNoPitch(b) ==
  TypeOf(Get(b, "event")) # "string" /\ ~Coercible(Get(b, "pitch"))

\* C1: a POST whose body has neither a string event nor a pitch coercible to
\* a finite number is answered with a 4xx status and changes nothing: latest,
\* history, the append calls, the log files, the subscribers and what was
\* sent to them are as before.
C1_RejectedIngestChangesNothing ==
  [][\A source \in Sources, reqBody \in Bodies :
       (NoEventNoPitch(reqBody) /\ Post(source, reqBody, {})) =>
          /\ res'.status \in 400..499
          /\ ~res'.ok
          /\ UNCHANGED <<latest, history, appendCalls, pending, file, sent, readyState,
                         wssClients, handler, console,
                 bridge,
                 viewer, posture, relay, firmware>>]_vars

C1_Witness ==
  /\ res.status = 400
  /\ res.error = ERR_PITCH
  /\ \E s \in Sources : Accepted(s) # <<>>
  /\ \E c \in Clients : Len(sent[c]) >= 3

\* C2 as claimed: after the Nth acceptance for a source, GET /latestN is
\* exactly the Nth accepted record, sample or event.
C2_LatestIsLastAccepted ==
  \A s \in Sources : Accepted(s) # <<>> => GetLatest(s) = Last(Accepted(s))

LastSampleIdx(seq) ==
  IF \E i \in 1..Len(seq) : KindOf(seq[i]) = KIND_SAMPLE
  THEN CHOOSE i \in 1..Len(seq) :
         /\ KindOf(seq[i]) = KIND_SAMPLE
         /\ \A j \in (i + 1)..Len(seq) : KindOf(seq[j]) # KIND_SAMPLE
  ELSE 0

\* C2 amended: after the Nth acceptance for a source, GET /latestN is exactly
\* the last sample among the N accepted records; while no sample has been
\* accepted it is the value set at start-up.
C2_LatestIsLastAcceptedSample ==
  \A s \in Sources :
    LET i == LastSampleIdx(Accepted(s)) IN
    IF i = 0
    THEN latest[s] = [pitch |-> Whole(0), ts |-> Whole(StartTime), source |-> Whole(s)]
    ELSE GetLatest(s) = Accepted(s)[i]

C2_Witness ==
  \E s \in Sources :
    /\ Len(Accepted(s)) >= 2
    /\ KindOf(Last(Accepted(s))) = KIND_EVENT
    /\ LastSampleIdx(Accepted(s)) > 0
    /\ GetLatest(s) # Last(Accepted(s))

\* C3: each history has at most MAX_BUFFER records and is the last
\* min(N, MAX_BUFFER) of the N records accepted for its source, in the order
\* of acceptance; after MAX_BUFFER + 1 acceptances its first record is the
\* second one accepted.
C3_HistoryIsLastAccepted ==
  \A s \in Sources :
    /\ Len(history[s]) <= MAX_BUFFER
    /\ GetHistory(s) = LastK(Accepted(s), Min(Len(Accepted(s)), MAX_BUFFER))
    /\ Len(Accepted(s)) = MAX_BUFFER + 1 => GetHistory(s)[1] = Accepted(s)[2]

C3_Witness ==
  \E s \in Sources :
    /\ Len(Accepted(s)) = MAX_BUFFER + 1
    /\ Accepted(s)[1] # Accepted(s)[2]
    /\ Accepted(s)[2] # Accepted(s)[3]

\* the messages sent to connection c after the two of its catch-up burst
AfterBurst(c) == SubSeq(sent[c], 3, Len(sent[c]))

OfSource(seq, s) == SelectSeq(seq, LAMBDA m : Get(m, "source") = Whole(s))

\* C4: an accepted record is sent exactly once, as it was accepted, to every
\* connection that is open when it is accepted and to no other, and the
\* records a connection is sent after its catch-up burst are in the order of
\* acceptance of their source.
C4_BroadcastFidelity ==
  [][/\ \A s \in Sources :
          Accepted(s)' # Accepted(s) =>
            \A c \in Clients :
              sent'[c] = IF readyState[c] = "OPEN"
                         THEN Append(sent[c], Last(Accepted(s)'))
                         ELSE sent[c]
     /\ \A c \in Clients, s \in Sources :
          IsSubseq(OfSource(AfterBurst(c), s), Accepted(s))']_vars

C4_Witness ==
  \E c, d \in Clients :
    /\ c # d
    /\ Len(AfterBurst(c)) >= 2
    /\ Len(AfterBurst(d)) = 1
    /\ AfterBurst(c)[1] # AfterBurst(c)[2]
    /\ Get(AfterBurst(c)[1], "source") = Get(AfterBurst(c)[2], "source")

\* C5: a connection made after both sources have accepted a record is sent
\* the current latest of source 1 and then the current latest of source 2 as
\* its first two messages, and everything sent to it later comes after them.
C5_CatchUpFirst ==
  [][\A c \in Clients :
       /\ (/\ readyState[c] = "NONE"
           /\ readyState'[c] = "OPEN"
           /\ \A s \in Sources : Accepted(s) # <<>>) =>
             sent'[c] = <<GetLatest(1), GetLatest(2)>>
       /\ readyState[c] # "NONE" => IsPrefix(sent[c], sent'[c])]_vars

C5_Witness ==
  \E c \in Clients :
    /\ Len(sent[c]) >= 3
    /\ KindOf(sent[c][1]) = KIND_SAMPLE
    /\ KindOf(sent[c][2]) = KIND_SAMPLE
    /\ sent[c][1].source = Whole(1)
    /\ sent[c][2].source = Whole(2)

C7_LogInAppendOrder ==
  \A s \in Sources : IsSubseq(file[s], Accepted(s))

\* a record: kind is sample or event, and it has a source and a numeric ts
IsRecord(m) ==
  /\ KindOf(m) \in {KIND_SAMPLE, KIND_EVENT}
  /\ "source" \in DOMAIN m
  /\ Get(m, "ts").t = "number"

\* C8: every message sent to a connection, in the catch-up burst or by
\* broadcast, and every line appended to a log is a record with kind sample
\* or event, a source and a numeric ts.
C8_EveryMessageIsRecord ==
  /\ \A c \in Clients : \A i \in 1..Len(sent[c]) : IsRecord(sent[c][i])
  /\ \A s \in Sources : \A i \in 1..Len(Accepted(s)) : IsRecord(Accepted(s)[i])

\* C9: GET /latestN is the last sample accepted for source N: accepting a
\* sample makes it that sample, accepting an event leaves it as it was.
C9_LatestFollowsSamplesOnly ==
  [][\A s \in Sources :
       Accepted(s)' # Accepted(s) =>
         IF KindOf(Last(Accepted(s)')) = KIND_EVENT
         THEN GetLatest(s)' = GetLatest(s)
         ELSE GetLatest(s)' = Last(Accepted(s)')]_vars

C9_Witness ==
  \E s \in Sources :
    /\ Len(Accepted(s)) = 3
    /\ KindOf(Accepted(s)[1]) = KIND_SAMPLE
    /\ KindOf(Accepted(s)[2]) = KIND_EVENT
    /\ KindOf(Accepted(s)[3]) = KIND_SAMPLE
    /\ Accepted(s)[1] # Accepted(s)[3]
    /\ GetLatest(s) = Accepted(s)[3]

\* C10: the completion of an append, failed or not, changes neither the last
\* response nor latest, history or what was sent to the subscribers, and every
\* accepted record is answered 200 {ok: true} whatever became of the appends.
C10_AppendFailureInvisible ==
  [][/\ (pending' # pending /\ appendCalls' = appendCalls) =>
          UNCHANGED <<res, nReq, latest, history, sent, readyState, wssClients, handler, console,
                 bridge,
                 viewer, posture, relay, firmware>>
     /\ appendCalls' # appendCalls => (res'.status = 200 /\ res'.ok)]_vars

C10_Witness ==
  \E s \in Sources :
    /\ pending[s] = {}
    /\ file[s] = <<>>
    /\ Len(Accepted(s)) >= 2
    /\ res.status = 200
    /\ Len(history[s]) = MAX_BUFFER
    /\ \E c \in Clients : Len(AfterBurst(c)) >= 1

Range(seq) == {seq[i] : i \in 1..Len(seq)}

\* the connection has disconnected or its transport was found not open
Dropped(c) == readyState[c] \in {"CLOSING", "CLOSED"}

\* a dropped connection stays dropped and is sent nothing further
SentNothingFurther ==
  \A c \in Clients : Dropped(c) => (Dropped(c)' /\ sent'[c] = sent[c])

\* while a connection is dropped, the open ones are sent every accepted record
OthersStillReceive ==
  \A s \in Sources :
    (Accepted(s)' # Accepted(s) /\ \E c \in Clients : Dropped(c)) =>
      \A d \in Clients :
        readyState[d] = "OPEN" => sent'[d] = Append(sent[d], Last(Accepted(s)'))

\* C11 as claimed: once a connection disconnects or its transport is found
\* closed during a send it is no longer in the subscriber set (wss.clients)
\* and is sent nothing further, and the other connection is sent every
\* record accepted afterwards.
C11_DroppedLeavesSetAtOnce ==
  [][/\ \A c \in Clients : Dropped(c)' => c \notin Range(wssClients')
     /\ SentNothingFurther
     /\ OthersStillReceive]_vars

\* C11 amended: such a connection is sent nothing further from then on; it
\* stays in wss.clients, skipped by the readyState test, while it is closing
\* and is out of wss.clients once it is closed; the other connection is sent
\* every record accepted afterwards.
C11_DroppedIsSkipped ==
  [][/\ \A c \in Clients :
          /\ readyState'[c] = "CLOSED" => c \notin Range(wssClients')
          /\ readyState'[c] = "CLOSING" => c \in Range(wssClients')
     /\ SentNothingFurther
     /\ OthersStillReceive]_vars

C11_Witness ==
  /\ readyState[1] = "CLOSED"
  /\ readyState[2] = "OPEN"
  /\ wssClients = <<2>>
  /\ Len(AfterBurst(1)) = 1
  /\ Len(AfterBurst(2)) = 2

\* C12: a POST for one source, accepted or rejected, leaves the latest, the
\* history and the log (append calls, writes in flight, file) of the other
\* source as they were.
C12_OtherSourceUntouched ==
  [][\A source \in Sources, reqBody \in HubBodies :
       Post(source, reqBody, {}) =>
         LET o == 3 - source IN
         /\ latest'[o] = latest[o]
         /\ history'[o] = history[o]
         /\ appendCalls'[o] = appendCalls[o]
         /\ pending'[o] = pending[o]
         /\ file'[o] = file[o]]_vars

C12_Witness ==
  /\ res.status = 400
  /\ file[1] # <<>>
  /\ file[2] # <<>>
  /\ KindOf(latest[1]) = KIND_SAMPLE
  /\ history[2] # <<>>


(* ---------------------------- normalisation ---------------------------- *)
\* the number a coercible raw value stands for, in tenths
NumberOf(v) == IF v.t = "number" THEN v.n ELSE ToNumber(v.s).n

\* the request names an event: its event field is a non-empty string
NamesEvent(b) == TypeOf(Get(b, "event")) = "string" /\ Get(b, "event").s # <<>>

\* the body {pitch: 10} with field f set to v
WithField(f, v) == Spread([pitch |-> Whole(10)], f, v)

\* the timestamp an accepted record must carry
ExpectedTs(b, t) == IF Coercible(Get(b, "ts")) THEN Num(NumberOf(Get(b, "ts"))) ELSE Whole(t)

\* C13: for every sample field and every finite number, posting the number
\* and posting its decimal text have the same outcome: from the same state,
\* at the same time, they lead to the same state and so to the same record.
C13_CoercionIgnoresRepresentation ==
  [][nReq' # nReq =>
       \A source \in Sources, f \in NumericFields, n \in CoerceVals :
          Post(source, WithField(f, Num(n)), {})
             <=> Post(source, WithField(f, Str(NumStr(n))), {})]_vars

C13_Witness ==
  /\ res.status = 200
  /\ KindOf(latest[1]) = KIND_SAMPLE
  /\ Get(latest[1], "roll") = Num(0 - 5)
  /\ Get(Last(Accepted(1)), "roll") = Num(0 - 5)

\* C14: an accepted sample carries each optional numeric field exactly when
\* the raw value coerces to a finite number, and then equal to that number;
\* a missing or uncoercible optional field is omitted and never rejects the
\* sample; {pitch: 10} posted to source 1 makes latest1 exactly
\* {kind: sample, source: 1, pitch: 10, ts: <time of ingestion>}.
C14_OptionalFieldsOmitted ==
  [][nReq' # nReq =>
       \A source \in Sources, reqBody \in NormBodies :
          (/\ Post(source, reqBody, {})
           /\ ~(TypeOf(Get(reqBody, "event")) = "string")
           /\ Coercible(Get(reqBody, "pitch")))
          => /\ res'.status = 200
             /\ KindOf(GetLatest(source)') = KIND_SAMPLE
             /\ \A f \in OptionalFields :
                   IF Coercible(Get(reqBody, f))
                   THEN /\ f \in DOMAIN GetLatest(source)'
                        /\ GetLatest(source)'[f] = Num(NumberOf(Get(reqBody, f)))
                   ELSE f \notin DOMAIN GetLatest(source)'
             /\ (reqBody = [pitch |-> Whole(10)] /\ source = 1)
                => GetLatest(1)' = [kind |-> KIND_SAMPLE, source |-> Whole(1),
                                    pitch |-> Whole(10), ts |-> Whole(now)]]_vars

C14_Witness ==
  /\ res.status = 200
  /\ GetLatest(1) = [kind |-> KIND_SAMPLE, source |-> Whole(1), pitch |-> Whole(10),
                     ts |-> Whole(now)]
  /\ now = 1

\* the event record the specification describes for an accepted raw body
EventRecord(b, source, t) ==
  [k \in DOMAIN b \cup {"kind", "source", "ts"} |->
     CASE k = "kind" -> KIND_EVENT
       [] k = "source" -> Whole(source)
       [] k = "ts" -> ExpectedTs(b, t)
       [] OTHER -> b[k]]

\* C15: an accepted event is the raw object's fields verbatim plus
\* kind = event, the endpoint's source and ts; it is appended to the log of
\* its source and to no other, and that same record is sent to every
\* subscriber; {event: button_click, ts: 123456} posted to source 2 gives
\* {kind: event, event: button_click, ts: 123456, source: 2}.
C15_EventKeepsRawFields ==
  [][nReq' # nReq =>
       \A source \in Sources, reqBody \in NormBodies :
          (Post(source, reqBody, {}) /\ NamesEvent(reqBody))
          => LET rec == EventRecord(reqBody, source, now) IN
             /\ res'.status = 200
             /\ Last(history'[source]) = rec
             /\ appendCalls'[source] = Append(appendCalls[source], Stringify(rec))
             /\ \A o \in Sources \ {source} : appendCalls'[o] = appendCalls[o]
             /\ \A c \in Clients :
                   readyState[c] = "OPEN" => sent'[c] = Append(sent[c], Stringify(rec))
             /\ (reqBody = [event |-> BUTTON_CLICK, ts |-> Whole(123456)] /\ source = 2)
                => Last(appendCalls'[2]) = [kind |-> KIND_EVENT, event |-> BUTTON_CLICK,
                                            ts |-> Whole(123456), source |-> Whole(2)]]_vars

C15_Witness ==
  /\ appendCalls[1] = <<>>
  /\ appendCalls[2] = <<[kind |-> KIND_EVENT, event |-> BUTTON_CLICK, ts |-> Whole(123456),
                         source |-> Whole(2)]>>
  /\ \A c \in Clients :
        /\ readyState[c] = "OPEN"
        /\ Last(sent[c]) = Last(appendCalls[2])

\* C16: every rejection carries the reason "pitch must be a number",
\* also when the event field is the empty string.
C16_EveryRejectionSaysPitch == res.status = 400 => res.error = ERR_PITCH

\* C17: a request whose event field is a non-empty string is accepted as an
\* event, whatever its pitch; every other request (event absent, not a
\* string, or the empty string) is accepted as a sample exactly when its
\* pitch coerces to a finite number.
C17_Classification ==
  [][nReq' # nReq =>
       \A source \in Sources, reqBody \in NormBodies :
          Post(source, reqBody, {})
          => IF NamesEvent(reqBody)
             THEN res'.status = 200 /\ KindOf(Last(Accepted(source)')) = KIND_EVENT
             ELSE IF Coercible(Get(reqBody, "pitch"))
                  THEN res'.status = 200 /\ KindOf(Last(Accepted(source)')) = KIND_SAMPLE
                  ELSE res'.status = 400]_vars

\* C18: every accepted record carries the number its raw ts stands for when
\* that is a finite number or a numeric string, and the time of ingestion
\* otherwise.
C18_TimestampRule ==
  [][nReq' # nReq =>
       \A source \in Sources, reqBody \in NormBodies :
          (Post(source, reqBody, {}) /\ res'.status = 200)
          => /\ Last(history'[source])["ts"] = ExpectedTs(reqBody, now)
             /\ Last(Accepted(source)')["ts"] = ExpectedTs(reqBody, now)]_vars

C18_Witness ==
  /\ now = 1
  /\ \E s \in Sources :
        /\ Accepted(s) # <<>>
        /\ KindOf(Last(Accepted(s))) = KIND_EVENT
        /\ Last(Accepted(s))["ts"] = Whole(1)


(* ---------------------------- analysis window -------------------------- *)
\* an analysis request got as far as computing its window
Analyzed == analysis.status \in {200, 500}

\* C19 as stated: for every requested window and every configured
\* ANALYSIS_MAX_WINDOW the effective window w has 20 <= w <= ANALYSIS_MAX_WINDOW.
C19_WindowWithinConfiguredMax ==
  Analyzed => /\ Whole(20).n <= analysis.window.n
              /\ analysis.window.n <= ANALYSIS_MAX_WINDOW.n

\* C19, amended: for every requested window (a number, missing or not
\* numeric), the effective window w is a number with
\* 20 <= w <= ANALYSIS_MAX_WINDOW when ANALYSIS_MAX_WINDOW is at least 20,
\* and w = 20 when ANALYSIS_MAX_WINDOW is below 20.
C19_WindowClamped ==
  Analyzed => /\ TypeOf(analysis.window) = "number"
              /\ Whole(20).n <= analysis.window.n
              /\ IF ANALYSIS_MAX_WINDOW.n >= Whole(20).n
                 THEN analysis.window.n <= ANALYSIS_MAX_WINDOW.n
                 ELSE analysis.window = Whole(20)

C19_Witness ==
  /\ analysis.status = 200
  /\ ANALYSIS_MAX_WINDOW = Num(215)
  /\ analysis.window = Num(215)

\* the records of a history that are among its most recent `size`: fewer
\* than `size` records follow the record's predecessor
RecentRecords(h, size) ==
  LET idx == {i \in 1..Len(h) : 10 * (Len(h) - i) < size.n} IN
  [j \in 1..Cardinality(idx) |-> h[Len(h) - Cardinality(idx) + j]]

SamplesOf(h) == SelectSeq(h, LAMBDA x : KindOf(x) = KIND_SAMPLE)

Occurrences(seq, x) == Cardinality({i \in 1..Len(seq) : seq[i] = x})

SameRecords(a, b) ==
  /\ Len(a) = Len(b)
  /\ \A i \in 1..Len(a) : Occurrences(a, a[i]) = Occurrences(b, a[i])

\* C20: the analysis window holds only Sample records: for selector 1 or 2
\* it is the Sample records among the most recent `size` records of that
\* source's history, in history order; for selector both it is the two
\* per-source windows merged with ts non-decreasing along the result.
C20_WindowOfSamples ==
  [][(analysis' # analysis /\ Analyzed')
        => LET size == analysis'.window
               got == analysis'.samples
               sel == analysis'.source
               w1 == SamplesOf(RecentRecords(history[1], size))
               w2 == SamplesOf(RecentRecords(history[2], size))
           IN /\ \A i \in 1..Len(got) : KindOf(got[i]) = KIND_SAMPLE
              /\ sel \in {Whole(1), Str(<<"1">>)} => got = w1
              /\ sel \in {Whole(2), Str(<<"2">>)} => got = w2
              /\ sel = Str(<<"b", "o", "t", "h">>)
                 => /\ SameRecords(got, w1 \o w2)
                    /\ \A i \in 1..(Len(got) - 1) : got[i]["ts"].n <= got[i + 1]["ts"].n]_vars

C20_Witness ==
  /\ analysis.status = 200
  /\ analysis.window = Whole(20)
  /\ Len(history[1]) > 20 /\ Len(history[2]) > 20
  /\ \E i \in 1..Len(history[2]) : KindOf(history[2][i]) = KIND_EVENT
  /\ Len(analysis.samples) > 20
  /\ Len(analysis.samples) < 40


\* C21: computing an analysis window never mutates state: both histories
\* and both latest values are the same after an analysis request as before
\* it, for every selector and window size.
C21_AnalysisMutatesNothing ==
  [][analysis' # analysis => history' = history /\ latest' = latest]_vars

C21_Witness ==
  /\ analysis.status = 200
  /\ analysis.source = Str(<<"b", "o", "t", "h">>)
  /\ Len(analysis.samples) > 20
  /\ \E i \in 1..(Len(history[1]) - 1) : history[1][i]["ts"].n > history[1][i + 1]["ts"].n
  /\ \A i \in 1..(Len(analysis.samples) - 1) :
        analysis.samples[i]["ts"].n <= analysis.samples[i + 1]["ts"].n


(* ---------------------------- inside one ingest ------------------------ *)
IsSuffix(a, b) == Len(a) <= Len(b) /\ SubSeq(b, Len(b) - Len(a) + 1, Len(b)) = a

\* the running handler has just executed the statement at position pc
Executes(pc) == handler.pc = pc /\ handler' # handler

HandlerHoldsSample == KindOf(handler.msg) = KIND_SAMPLE

\* C22 as stated: within one accepted ingest the store is updated before
\* the log append is enqueued, and the append is enqueued before the record
\* is published: when a subscriber is sent the record it is already latest
\* of its source and the last element of that source's history.
C22_StoredThenLoggedThenPublished ==
  [][LET s == handler.source
         m == handler.msg
     IN /\ Executes("append")
           => latest[s] = m /\ history[s] # <<>> /\ Last(history[s]) = m
        /\ (Executes("broadcast") /\ sent' # sent)
           => /\ Last(appendCalls[s]) = Stringify(m)
              /\ latest[s] = m
              /\ history[s] # <<>> /\ Last(history[s]) = m]_vars

\* C22, amended: a Sample becomes latest before its log append is enqueued,
\* the append is enqueued before the record is published, and the record is
\* pushed onto history only after it has been published, before the ingest
\* returns; an Event never becomes latest. When the ingest returns, the
\* record is the last element of its source's history and, for a Sample,
\* latest.
C22_PublishedThenStored ==
  [][LET s == handler.source
         m == handler.msg
     IN /\ Executes("append")
           => /\ HandlerHoldsSample => latest[s] = m
              /\ handler'.pc = "broadcast"
              /\ history' = history
        /\ Executes("broadcast")
           => /\ Last(appendCalls[s]) = Stringify(m)
              /\ HandlerHoldsSample => latest[s] = m
              /\ history' = history
              /\ handler'.pc = "push"
        /\ history' # history => Executes("push")
        /\ Executes("push")
           => /\ Last(history'[s]) = m
              /\ \A c \in Clients : readyState[c] = "OPEN" => Last(sent[c]) = Stringify(m)
        /\ Executes("reply")
           => /\ Last(history[s]) = m
              /\ IF HandlerHoldsSample THEN latest[s] = m ELSE latest[s] # m]_vars

C22_Witness ==
  /\ handler.pc = "push"
  /\ history[handler.source] = <<>>
  /\ HandlerHoldsSample
  /\ latest[handler.source] = handler.msg
  /\ \E c \in Clients : readyState[c] = "OPEN" /\ Last(sent[c]) = Stringify(handler.msg)

\* C23: ingests are applied atomically in receipt order: from the receipt of
\* a request to its return no other request is taken on and nothing but the
\* running handler changes latest, history, the append calls or what was
\* sent; when it returns, its record is the last of its source in history,
\* in the append calls and in what every open subscriber was sent, so for
\* each source these three orders are the receipt order.
C23_AtomicInReceiptOrder ==
  [][LET s == handler.source
         m == handler.msg
     IN /\ handler.pc # "idle"
           => /\ handler'.pc = "idle" \/ (handler'.source = s /\ handler'.msg = m)
              /\ handler' = handler => UNCHANGED <<latest, history, appendCalls, sent,
                 viewer, posture, relay, firmware>>
        /\ (handler.pc = "idle" /\ handler'.pc # "idle")
           => UNCHANGED <<latest, history, appendCalls, sent,
                 viewer, posture, relay, firmware>>
        /\ Executes("reply")
           => /\ Last(history'[s]) = m
              /\ Last(appendCalls'[s]) = Stringify(m)
              /\ \A c \in Clients : readyState[c] = "OPEN" => Last(sent'[c]) = Stringify(m)
        /\ handler'.pc = "idle"
           => \A o \in Sources :
                 /\ IsSuffix(GetHistory(o)', appendCalls'[o])
                 /\ \A c \in Clients : IsSuffix(OfSource(AfterBurst(c)', o), appendCalls'[o])]_vars

C23_Witness ==
  /\ handler.pc = "idle"
  /\ Len(appendCalls[1]) = 2
  /\ KindOf(appendCalls[1][1]) = KIND_EVENT
  /\ KindOf(appendCalls[1][2]) = KIND_SAMPLE
  /\ GetHistory(1) = appendCalls[1]
  /\ \E c \in Clients : AfterBurst(c) = appendCalls[1]

\* C26: every ingest that was taken on returns, whether or not the write of
\* its record to the log completes and whatever the subscribers do: the
\* acknowledgment is given while the append is still pending.
C26_IngestReturns == (handler.pc # "idle") ~> (handler.pc = "idle" /\ res.status = 200)

C26_Witness ==
  /\ handler.pc = "idle"
  /\ res.status = 200
  /\ nReq = 1
  /\ \E s \in Sources : pending[s] # {} /\ file[s] = <<>> /\ Len(history[s]) = 1


(* ---------------------------- catch-up of known sources ---------------- *)
\* the sources that have accepted at least one record, in ascending id
KnownSources == SelectSeq(<<1, 2>>, LAMBDA s : Accepted(s) # <<>>)

\* C24: the catch-up burst of a new subscriber has exactly one message for
\* each source that has accepted at least one record, in ascending source
\* id, and none for a source that has accepted no record yet.
C24_CatchUpOnlyKnownSources ==
  [][\A c \in Clients :
       (readyState[c] = "NONE" /\ readyState'[c] = "OPEN")
       => sent'[c] = [i \in 1..Len(KnownSources) |-> GetLatest(KnownSources[i])]]_vars


(* ---------------------------- one snapshot per record ------------------ *)
\* the records held before a step are held unchanged after it, but for the
\* oldest one, which may have been shifted out
HistoryKept(s) ==
  \/ history'[s] = history[s]
  \/ /\ history'[s] # <<>>
     /\ IsSuffix(SubSeq(history'[s], 1, Len(history'[s]) - 1), history[s])

\* C25: for each accepted record, what is appended to the log, what is sent
\* to every subscriber and what history holds (as GET /historyN serves it)
\* are equal field for field, and no later ingest, subscription or analysis
\* changes a record that history or latest holds.
C25_OneImmutableSnapshot ==
  [][\A s \in Sources :
       /\ appendCalls'[s] # appendCalls[s]
          => /\ Last(GetHistory(s)') = Last(appendCalls'[s])
             /\ \A c \in Clients :
                   readyState[c] = "OPEN" => Last(sent'[c]) = Last(appendCalls'[s])
       /\ HistoryKept(s)
       /\ latest'[s] = latest[s] \/ latest'[s] = Last(history'[s])]_vars

C25_Witness ==
  /\ Analyzed
  /\ Len(history[1]) = 2
  /\ Len(appendCalls[1]) = 3
  /\ KindOf(history[1][1]) = KIND_EVENT
  /\ Get(history[1][1], "x") = NonFinite
  /\ latest[1] = history[1][2]
  /\ \E c \in Clients : readyState[c] = "OPEN" /\ AfterBurst(c) = appendCalls[1]

(* ---------------------------- ties in the merged window ---------------- *)
\* x comes before y in arr (x and y equal: nothing to tell apart)
Before(x, y, arr) == x = y \/ \E i, j \in 1..Len(arr) : i < j /\ arr[i] = x /\ arr[j] = y

\* the analysis just answered merged the two sources
MergedNow == analysis' # analysis /\ Analyzed' /\ analysis'.source = Str(<<"b", "o", "t", "h">>)

TsSorted(got) == \A i \in 1..(Len(got) - 1) : got[i]["ts"].n <= got[i + 1]["ts"].n

\* a subscriber that was sent every accepted record: what it was sent after
\* its catch-up burst is the order of arrival
SawAllArrivals(c) ==
  readyState[c] = "OPEN" /\ Len(AfterBurst(c)) = Len(appendCalls[1]) + Len(appendCalls[2])

\* C29 as stated: in the merged window samples with equal ts are in the
\* order in which they arrived at the server, also across sources, and
\* samples are not otherwise resequenced.
C29_TiesInArrivalOrder ==
  [][MergedNow
     => LET got == analysis'.samples IN
        /\ TsSorted(got)
        /\ \A c \in Clients :
              SawAllArrivals(c)
              => \A a, b \in 1..Len(got) :
                    (a < b /\ got[a]["ts"] = got[b]["ts"])
                    => Before(Stringify(got[a]), Stringify(got[b]), AfterBurst(c))]_vars

\* C29, amended: in the merged window samples are in non-decreasing ts;
\* samples with equal ts of the same source are in the order in which they
\* arrived, and of two samples with equal ts from different sources the one
\* of source 1 comes first, whichever arrived first.
C29_TiesBySourceThenArrival ==
  [][MergedNow
     => LET got == analysis'.samples IN
        /\ TsSorted(got)
        /\ \A a, b \in 1..Len(got) :
              (a < b /\ got[a]["ts"] = got[b]["ts"])
              => /\ got[a]["source"].n <= got[b]["source"].n
                 /\ got[a]["source"] = got[b]["source"]
                    => Before(got[a], got[b], history[got[a]["source"].n \div 10])]_vars

C29_Witness ==
  /\ analysis.status = 200
  /\ analysis.source = Str(<<"b", "o", "t", "h">>)
  /\ Len(analysis.samples) = 2
  /\ analysis.samples[1]["source"] = Whole(1)
  /\ analysis.samples[2]["source"] = Whole(2)
  /\ analysis.samples[1]["ts"] = analysis.samples[2]["ts"]
  /\ \E c \in Clients :
        AfterBurst(c) = <<Stringify(analysis.samples[2]), Stringify(analysis.samples[1])>>


(* ---------------------------- failed appends --------------------------- *)
\* an append to the log of source s has just failed: the call is no longer
\* in flight and the file has not grown
AppendJustFailed(s) == pending'[s] # pending[s] /\ pending'[s] \subseteq pending[s] /\ file' = file

\* C27: every failed log append is reported: the failure leaves an entry
\* that the operator can see.
C27_FailedAppendReported ==
  [][\A s \in Sources : AppendJustFailed(s) => Len(console') > Len(console)]_vars

(* ---------------------------- size of the window ----------------------- *)
\* C28 as stated: for every selector and every effective window size the
\* analysis window has at most `size` records in total.
C28_AtMostSizeRecords == Analyzed => 10 * Len(analysis.samples) <= analysis.window.n

\* the least whole number of records that is not below size
WholeSize(size) == (size.n + 9) \div 10

FromSource(seq, s) == SelectSeq(seq, LAMBDA m : Get(m, "source") = Whole(s))

\* C28, amended: the analysis window has at most `size` records of each
\* source, size rounded up to a whole number: at most that many in total for
\* selector 1 or 2, and at most twice as many for selector both.
C28_AtMostSizePerSource ==
  Analyzed
  => /\ \A s \in Sources :
           Len(FromSource(analysis.samples, s)) <= WholeSize(analysis.window)
     /\ analysis.source \in {Whole(1), Str(<<"1">>), Whole(2), Str(<<"2">>)}
        => Len(analysis.samples) <= WholeSize(analysis.window)
     /\ Len(analysis.samples) <= 2 * WholeSize(analysis.window)

C28_Witness ==
  /\ analysis.status = 200
  /\ analysis.source = Str(<<"b", "o", "t", "h">>)
  /\ analysis.window = Whole(20)
  /\ Len(FromSource(analysis.samples, 1)) = 20
  /\ Len(analysis.samples) > 30

\* what the README says of a line: trimmed, it starts with "{", ends with
\* "}", parses as JSON and has a number pitch or a string event
Forwardable(line) ==
  LET s == Trim(line) IN
  /\ s # <<>> /\ Head(s) = "{" /\ Last(s) = "}"
  /\ JSONParse(s).ok
  /\ \/ Get(JSONParse(s).val, "pitch").t \in {"number", "nonfinite"}
     \/ Get(JSONParse(s).val, "event").t = "string"

\* C30: the bridge posts a serial line exactly when the trimmed line starts
\* with "{", ends with "}", parses as JSON and has a number-typed pitch or a
\* string-typed event; such a line causes exactly one POST, carrying the
\* parsed object, every other line causes none, and nothing else posts.
C30_PostsExactlyForwardableLines ==
  [][/\ bridge'.lines = bridge.lines => bridge'.posted = bridge.posted
     /\ bridge'.lines # bridge.lines =>
          \A line \in SerialLines :
            SerialData(line) =>
              bridge'.posted = IF Forwardable(line)
                               THEN Append(bridge.posted, Stringify(JSONParse(Trim(line)).val))
                               ELSE bridge.posted]_vars

\* two lines were read: one was forwarded, the other failed to parse and
\* was logged without a POST
C30_Witness ==
  /\ bridge.lines = 2
  /\ Len(bridge.posted) = 1
  /\ Occurrences(bridge.console, "[JSON parse error]") = 1

(* ---------------------------- server-set kind and source --------------- *)
\* the record appended last to the log of s is what its history holds last
\* and what every open connection was sent last
HeldEverywhere(s) ==
  /\ Last(GetHistory(s)) = Last(appendCalls[s])
  /\ \A c \in Clients : readyState[c] = "OPEN" => Last(sent[c]) = Last(appendCalls[s])

\* C31: kind and source of an accepted record are set by the server: a
\* request with a string event is stored, logged and broadcast with kind
\* event and the source of its endpoint whatever kind and source the raw
\* object names, and a sample is stored with kind sample, the source of its
\* endpoint and no field outside the sample field list.
C31_ServerSetsKindAndSource ==
  [][\A source \in Sources, reqBody \in NormBodies :
       (FirstPost(source, reqBody) /\ res'.status = 200) =>
          LET m == Last(appendCalls'[source]) IN
          /\ HeldEverywhere(source)'
          /\ Get(m, "source") = Whole(source)
          /\ IF TypeOf(Get(reqBody, "event")) = "string"
             THEN KindOf(m) = KIND_EVENT
             ELSE KindOf(m) = KIND_SAMPLE /\ DOMAIN m \subseteq SampleFields \cup {"source"}]_vars

\* an event that named kind sample and source 9 was taken on endpoint 2 and
\* a subscriber was sent it as an event of source 2, its other fields kept
C31_Witness ==
  /\ Len(appendCalls[2]) = 1
  /\ \E c \in Clients : readyState[c] = "OPEN" /\ Len(sent[c]) = 3
  /\ HeldEverywhere(2)
  /\ LET m == Last(appendCalls[2]) IN
     /\ KindOf(m) = KIND_EVENT /\ Get(m, "source") = Whole(2)
     /\ Get(m, "note") = Str(<<"a">>)

(* ---------------------------- the viewer's connection ------------------ *)
\* C32: once PostureViewModel.stop has called disconnect(), and until start
\* calls connect() again, the client holds no socket and no reconnect timer
\* is pending, whenever the cancelled socket's receive callback runs.
C32_StoppedStaysStopped ==
  viewer.called = "stop" => viewer.socket = 0 /\ viewer.scheduled = {}

\* a statement of the failure handler of a socket that is no longer the
\* current one has just run
SupersededFailureRuns ==
  /\ viewer.callback.pc # "idle"
  /\ viewer'.callback # viewer.callback
  /\ viewer.socket # 0
  /\ viewer.callback.of # viewer.socket

\* C33: the failure handler of a socket that a later connect() has replaced
\* does not clear or cancel the current socket and leaves isConnected as it
\* is.
C33_SupersededFailureIsHarmless ==
  [][SupersededFailureRuns =>
       /\ viewer'.socket = viewer.socket
       /\ viewer'.isConnected = viewer.isConnected
       /\ viewer.socket \in viewer.cancelled <=> viewer.socket \in viewer'.cancelled]_vars

\* C34: whenever no operation or callback of TelemetryWebSocket is under
\* way, isConnected is true exactly when a socket is held, and at most one
\* reconnect timer is pending.
C34_ConnectedIffSocket ==
  viewer.callback.pc = "idle" =>
    /\ viewer.isConnected <=> viewer.socket # 0
    /\ Cardinality(viewer.scheduled) <= 1

(* ---------------------------- the view model --------------------------- *)
\* the main queue has just run handle on the message at its head
Handled == posture.mainQueue # <<>> /\ posture'.mainQueue = Tail(posture.mainQueue)

Has(msg, k, value) == k \in DOMAIN msg /\ msg[k] = value

\* pitch_smooth when present, else pitch, else 0
ShownPitch(msg) ==
  IF "pitch_smooth" \in DOMAIN msg THEN msg["pitch_smooth"]
  ELSE IF "pitch" \in DOMAIN msg THEN msg["pitch"]
  ELSE 0

\* C35: handle changes only what the message addresses: an event sets
\* lastEvent alone; a sample of source 1 sets upperPitch (pitch_smooth, else
\* pitch, else 0) and upperRoll alone; a sample of source 2 sets lowerPitch
\* alone; any other kind, no kind or any other source changes nothing.
C35_HandleChangesOnlyAddressed ==
  [][Handled =>
       LET msg == Head(posture.mainQueue)
           same(fields) == \A f \in fields : posture'[f] = posture[f]
       IN IF Has(msg, "kind", "event")
            THEN /\ posture'.lastEvent = (IF "event" \in DOMAIN msg THEN <<msg["event"]>> ELSE <<>>)
                 /\ same({"upperPitch", "upperRoll", "lowerPitch"})
          ELSE IF Has(msg, "kind", "sample") /\ Has(msg, "source", 1)
            THEN /\ posture'.upperPitch = ShownPitch(msg)
                 /\ posture'.upperRoll = (IF "roll" \in DOMAIN msg THEN msg["roll"] ELSE 0)
                 /\ same({"lowerPitch", "lastEvent"})
          ELSE IF Has(msg, "kind", "sample") /\ Has(msg, "source", 2)
            THEN /\ posture'.lowerPitch = ShownPitch(msg)
                 /\ same({"upperPitch", "upperRoll", "lastEvent"})
          ELSE same({"upperPitch", "upperRoll", "lowerPitch", "lastEvent"})]_vars

\* messages of both sources and an event were handled: the upper pitch is a
\* pitch_smooth, the lower pitch a plain pitch, and a message without kind
\* is waiting
C35_Witness ==
  /\ posture.upperPitch = 2 /\ posture.upperRoll = 3
  /\ posture.lowerPitch = 4
  /\ posture.lastEvent = <<"button_click">>
  /\ posture.mainQueue = <<[source |-> 1, pitch |-> 1, roll |-> 3]>>

(* ---------------------------- the legacy relay ------------------------- *)
\* C36: at most one demo timer is active: POST /demo/start while a timer
\* runs creates none and answers alreadyRunning, POST /demo/stop leaves no
\* timer active, and a demo value is written only by the timer of the last
\* start, never after a stop.
C36_OneDemoTimer ==
  [][/\ Cardinality(relay'.intervals) <= 1
     /\ (RelayDemoStart /\ relay.demoTimer # 0) =>
           relay'.intervals = relay.intervals /\ relay'.res.alreadyRunning
     /\ RelayDemoStop => relay'.intervals = {} /\ relay'.demoTimer = 0
     /\ \A timer \in 1..MaxDemoTimers :
           RelayDemoTick(timer) => relay.demoTimer = timer]_vars

\* demo mode was started, stopped and started again, its second timer has
\* written a value to a client, and one more start was answered alreadyRunning
C36_Witness ==
  /\ relay.created = 2 /\ relay.intervals = {2}
  /\ relay.res.alreadyRunning
  /\ relay.t = 1
  /\ relay.latest.pitch = Num(120)
  /\ \E c \in Clients : Len(relay.sent[c]) = 2 /\ relay.sent[c][2] = Stringify(relay.latest)

\* the text is JSON with a number-typed pitch
HasNumberPitch(data) ==
  /\ JSONParseText(data, SkipWs(data, 1)).ok
  /\ Get(JSONParseText(data, SkipWs(data, 1)).val, "pitch").t \in {"number", "nonfinite"}

RelayUntouched ==
  /\ relay'.latest = relay.latest
  /\ relay'.sent = relay.sent
  /\ relay'.readyState = relay.readyState

\* C37: invalid input changes nothing: POST /pitch without a number-typed
\* pitch is answered 400 "pitch must be a number" and a WebSocket message
\* that is not JSON or has no number-typed pitch is ignored; latest is
\* unchanged, nothing is sent and every connection stays as it is.
C37_InvalidInputChangesNothing ==
  [][relay'.ops # relay.ops =>
       /\ \A body \in PitchBodies :
            (RelayPostPitch(body) /\ Get(body, "pitch").t \notin {"number", "nonfinite"}) =>
               /\ relay'.res = [status |-> 400, ok |-> FALSE,
                                error |-> "pitch must be a number", alreadyRunning |-> FALSE]
               /\ RelayUntouched
       /\ \A c \in Clients, data \in RelayTexts :
            (RelayMessage(c, data) /\ ~HasNumberPitch(data)) => RelayUntouched]_vars

\* a client connected and was sent the start-up value; then invalid inputs
\* only were taken, the last of them a POST /pitch answered 400
C37_Witness ==
  /\ relay.ops = 3
  /\ relay.res.status = 400
  /\ relay.latest = RelayStart.latest
  /\ \E c \in Clients : relay.readyState[c] = "OPEN" /\ relay.sent[c] = <<RelayStart.latest>>

\* C38: latest always has a number-typed pitch and a number-typed ts, and
\* so has every message sent to a client.
C38_LatestIsNumberTyped ==
  /\ TypeOf(relay.latest.pitch) = "number" /\ TypeOf(relay.latest.ts) = "number"
  /\ \A c \in Clients : \A i \in 1..Len(relay.sent[c]) :
        /\ TypeOf(Get(relay.sent[c][i], "pitch")) = "number"
        /\ TypeOf(Get(relay.sent[c][i], "ts")) = "number"

(* ---------------------------- firmware calibration --------------------- *)
PrintedNow(line) == \E i \in 1..Len(firmware'.serial) : firmware'.serial[i] = line

\* C39: a click while calibrating does not restart or reset the
\* calibration (no calibration_start, count and sum kept or advanced by one
\* sample); a calibration ends only with its CALIB_SECONDS-th progress
\* sample, printing a calibration event and setting baselineValid; every
\* successful read that is due adds one progress sample; baselineValid never
\* returns to false; calibration_failed is never printed.
C39_CalibrationStateMachine ==
  [][/\ firmware.calibrating =>
          /\ ~PrintedNow("calibration_start")
          /\ firmware.calibCount < CALIB_SECONDS
          /\ firmware'.calibCount \in {firmware.calibCount, firmware.calibCount + 1}
          /\ firmware'.calibCount = firmware.calibCount + 1 <=> PrintedNow("calibration_progress")
          /\ firmware'.calibrating <=> firmware'.calibCount < CALIB_SECONDS
          /\ (PrintedNow("sample")
                /\ firmware'.nowMs - firmware.lastCalibSampleMs >= CALIB_INTERVAL_MS)
               => PrintedNow("calibration_progress")
     /\ (firmware.calibrating /\ ~firmware'.calibrating) =>
          /\ firmware'.calibCount = CALIB_SECONDS
          /\ PrintedNow("calibration")
          /\ firmware'.baselineValid
     /\ PrintedNow("calibration") => firmware.calibrating /\ ~firmware'.calibrating
     /\ firmware.baselineValid => firmware'.baselineValid
     /\ ~PrintedNow("calibration_failed")]_vars

\* a calibration has just ended with its fifth sample, 5000 ms after its
\* start, although the button was clicked again while it ran
C39_Witness ==
  /\ firmware.serial = <<"calibration_progress", "calibration", "sample">>
  /\ firmware.calibCount = CALIB_SECONDS /\ firmware.baselineValid /\ ~firmware.calibrating
  /\ firmware.baselinePitch = 10
  /\ firmware.clicked

====
